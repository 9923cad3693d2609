-------------------------- MODULE AdminReadsProofs --------------------------
(***************************************************************************)
(* Proofs about what a session knows and changes of a tailnet.             *)
(* AdminReads: type correctness; that what is on screen is of the active   *)
(* profile; that it includes one's own finished writes; that no resource   *)
(* loads and no device is locked without a read; and that only the profile *)
(* chosen last becomes active and only what was reviewed is written.       *)
(* AdminChanges: type correctness; and that what is told of a change is so *)
(* whatever was lost, late or changed by somebody else.                    *)
(* OneTimeSecrets: type correctness; and that every secret reaches the     *)
(* user, every answer is true and nothing is held once all are handled.    *)
(* OperationalRequests: type correctness; and that a webhook or log stream *)
(* is changed as reviewed, nothing beside it is, and the answer is true.   *)
(***************************************************************************)
EXTENDS AdminReads, AdminChanges, OneTimeSecrets, OperationalRequests, SequenceTheorems, TLAPS

USE DEF None

-----------------------------------------------------------------------------
(* The operators on resources and readers *)

Administrations == [profile : Profiles \cup {None}, res : [Resources -> ReadResources]]

\* Reading tells a reader's record from the absence of one.
LEMMA ReaderIs ==
    ASSUME ReadsTypeOK, NEW n \in Readers
    PROVE  /\ Reading(n) => readers[n] \in ReadRecords
           /\ \A rec \in ReadRecords : rec # NoReader
<1>1. readers[n] \in {NoReader} \cup ReadRecords
  BY DEF ReadsTypeOK
<1>2. \A rec \in ReadRecords : rec.kind # "none"
  BY DEF ReadRecords
<1>3. NoReader.kind = "none"
  BY DEF NoReader
<1> QED
  BY <1>1, <1>2, <1>3 DEF Reading

\* The data of a resource that has not been read.
LEMMA NoDataType == NoData \in ReadData /\ \A r \in Resources : Unread[r] \in ReadResources /\ Unread[r].data = NoData
BY DEF NoData, ReadData, Unread, ReadResources, States

\* A read that begins changes the state and the generation of a resource only.
LEMMA BegunFacts ==
    ASSUME NEW res \in ReadResources, NEW gen \in Nat
    PROVE  /\ Begun(res, gen) \in ReadResources
           /\ Begun(res, gen).state = "Loading"
           /\ Begun(res, gen).data = res.data
BY DEF Begun, ReadResources, States

\* An answer gives new data when it is the answer of the current read.
LEMMA AppliedFacts ==
    ASSUME NEW res \in ReadResources, NEW gen \in Nat, NEW profile \in Profiles,
           NEW answer \in AdminAnswers
    PROVE  LET new == Applied(res, gen, profile, answer)
           IN  /\ new \in ReadResources
               /\ \/ new.data = res.data /\ (new.state = "Ready" => new = res)
                  \/ answer.state = "Ready" /\ new.data = [of |-> profile, ver |-> answer.ver]
               /\ new.state = "Loading" => res.state = "Loading"
<1> DEFINE new == Applied(res, gen, profile, answer)
<1>1. CASE answer.state = "Ready" /\ res.gen # gen
  <2>1. new = res
    BY <1>1 DEF Applied
  <2> QED
    BY <2>1
<1>2. CASE answer.state = "Ready" /\ res.gen = gen
  <2>1. new = [res EXCEPT !.state = "Ready", !.data = [of |-> profile, ver |-> answer.ver]]
    BY <1>2 DEF Applied
  <2>2. [of |-> profile, ver |-> answer.ver] \in ReadData
    BY DEF ReadData, AdminAnswers
  <2> QED
    BY <1>2, <2>1, <2>2 DEF ReadResources, States
<1>3. CASE answer.state = "Failed" /\ res.data # NoData
  <2>1. new = [res EXCEPT !.gen = gen, !.state = "Stale"]
    BY <1>3 DEF Applied
  <2> QED
    BY <1>3, <2>1 DEF ReadResources, States
<1>4. CASE /\ answer.state # "Ready"
           /\ ~(answer.state = "Failed" /\ res.data # NoData)
  <2>1. new = [res EXCEPT !.gen = gen, !.state = answer.state]
    BY <1>4 DEF Applied
  <2>2. answer.state \in {"Failed", "Forbidden"}
    BY <1>4 DEF AdminAnswers
  <2> QED
    BY <1>4, <2>1, <2>2 DEF ReadResources, States
<1> QED
  BY <1>1, <1>2, <1>3, <1>4

\* A refused or failed refresh leaves the data of a resource.
LEMMA RefusedFacts ==
    ASSUME NEW res \in ReadResources, NEW gen \in Nat
    PROVE  /\ Unauthenticated(res, gen) \in ReadResources /\ MarkedFailed(res, gen) \in ReadResources
           /\ Unauthenticated(res, gen).data = res.data /\ MarkedFailed(res, gen).data = res.data
           /\ Unauthenticated(res, gen).state \notin {"Ready", "Loading"}
           /\ MarkedFailed(res, gen).state \notin {"Ready", "Loading"}
BY DEF Unauthenticated, MarkedFailed, ReadResources, States

\* A new reader has asked for nothing yet.
LEMMA ReaderFacts ==
    ASSUME NEW kind \in {"full", "part", "detail"}, NEW profile \in Profiles, NEW gen \in Nat,
           NEW rs \in SUBSET Resources, NEW tok \in Nat
    PROVE  LET rec == Reader(kind, profile, gen, rs, tok)
           IN  /\ rec \in ReadRecords
               /\ rec.kind = kind /\ rec.profile = profile /\ rec.gen = gen /\ rec.token = tok
               /\ \A r \in Resources : rec.got[r].state = "none"
BY DEF Reader, ReadRecords, Unasked

\* A task is spawned where no reader is.
LEMMA SpawnFacts ==
    ASSUME FreeReader # {}, NEW rec, Spawn(rec)
    PROVE  \E n \in Readers : ~Reading(n) /\ readers' = [readers EXCEPT ![n] = rec]
<1>1. (CHOOSE m \in FreeReader : TRUE) \in FreeReader
  OBVIOUS
<1> QED
  BY <1>1 DEF Spawn, FreeReader

\* The device list is composed of the profile and its devices' data only.
LEMMA ComposedFacts ==
    ASSUME NEW a, NEW b, NEW l, a.profile = b.profile,
           \A r \in Resources : a.res[r].data = b.res[r].data
    PROVE  Composed(a, l) = Composed(b, l)
<1>1. a.res["devices"].data = b.res["devices"].data
  BY DEF Resources
<1>2. ViewSource(a, l) = ViewSource(b, l)
  BY <1>1 DEF ViewSource, Aligned
<1> QED
  BY <1>1, <1>2 DEF Composed

-----------------------------------------------------------------------------
(* What begins reads, and what switches *)

\* A reader takes a free place for the reads of generation gen.
Spawned(kind, profile, gen, rs) ==
    \E n \in Readers :
        ~Reading(n) /\ readers' = [readers EXCEPT ![n] = Reader(kind, profile, gen, rs, gen)]

\* What begins a refresh does to what it changes.
LEMMA BeginFacts ==
    ASSUME NEW a \in Administrations, a.profile \in Profiles, NEW gen \in Nat,
           NEW rs \in SUBSET Resources, NEW kind \in {"full", "part"}, BeginReads(a, gen, rs, kind)
    PROVE  /\ admin' \in Administrations /\ admin'.profile = a.profile
           /\ \A r \in Resources : /\ admin'.res[r].data = a.res[r].data
                                   /\ r \in rs => admin'.res[r].state = "Loading"
                                   /\ r \notin rs => admin'.res[r] = a.res[r]
           /\ generation' = gen /\ token' = gen
           /\ inFlight' = TRUE /\ due' = FALSE
           /\ readLocks' = {}
           /\ Spawned(kind, a.profile, gen, rs)
<1> DEFINE new == [r \in Resources |-> IF r \in rs THEN Begun(a.res[r], gen) ELSE a.res[r]]
<1>1. \A r \in Resources : a.res[r] \in ReadResources
  BY DEF Administrations
<1>2. admin' = [a EXCEPT !.res = new]
  BY DEF BeginReads
<1>3. \A r \in Resources : /\ new[r] \in ReadResources
                           /\ new[r].data = a.res[r].data
                           /\ r \in rs => new[r].state = "Loading"
                           /\ r \notin rs => new[r] = a.res[r]
  BY <1>1, BegunFacts
<1>4. new = [r \in Resources |-> new[r]]
  OBVIOUS
<1> HIDE DEF new
<1>5. new \in [Resources -> ReadResources]
  BY <1>3, <1>4
<1>6. admin' \in Administrations /\ admin'.profile = a.profile /\ admin'.res = new
  BY <1>2, <1>5 DEF Administrations
<1>7. Spawned(kind, a.profile, gen, rs)
  BY SpawnFacts DEF BeginReads, Spawned
<1> QED
  BY <1>3, <1>6, <1>7 DEF BeginReads, UnlockAll

\* The steps by which the active profile is read again, after which its
\* generation is the next one.
Refreshes(rs, kind) ==
    /\ BeginReads(admin, generation + 1, rs, kind)
    /\ Others /\ Shown /\ UNCHANGED review

\* The user's refreshes, the timer's, the first one, and the one after a write.
LEMMA RefreshActions ==
    ASSUME StartUp \/ RefreshAll \/ TickRefresh \/ RefreshView \/ WriteFinished
    PROVE  /\ \/ \E rs \in SUBSET Resources, kind \in {"full", "part"} :
                     Refreshes(rs, kind) /\ UNCHANGED <<writing, acked>>
              \/ WriteFinished /\ Refreshes(writing.over, "part")
           /\ generation = 0 \/ Active \/ writing # NoWrite
           /\ acts' = acts \/ acts' = acts + 1
BY DEF StartUp, RefreshAll, TickRefresh, RefreshView, WriteFinished, WrittenIsRead, Refreshes, StartAdminRefresh, Act

\* Before the first refresh the first profile is active, and a write is one of
\* the active profile's.
Standing ==
    /\ generation = 0 => Active
    /\ writing # NoWrite => Active /\ writing.profile = admin.profile

\* What was known of the profile left is kept, of the one chosen taken out.
Swapped(p) ==
    saved' = [q \in Profiles |-> IF q = admin.profile THEN admin.res
                                 ELSE IF q = p THEN Unread ELSE saved[q]]

\* A change of the active profile: all of it is read anew, or nothing is.
ProfileIsSwitched(p) ==
    /\ p # admin.profile /\ writing = NoWrite
    /\ admin' \in Administrations /\ admin'.profile = p
    /\ \A r \in Resources : /\ admin'.res[r].data = IF p = None THEN NoData ELSE saved[p][r].data
                            /\ p # None => admin'.res[r].state = "Loading"
    /\ Swapped(p)
    /\ generation' \in Nat /\ generation' > generation
    /\ token' \in Nat /\ readLocks' = {}
    /\ inFlight' \in BOOLEAN /\ (p # None => inFlight') /\ due' = FALSE
    /\ \/ p = None /\ UNCHANGED readers
       \/ p # None /\ Spawned("full", p, generation', Resources)
    /\ health' = None
    /\ evaluations' = Outdated
    /\ view' = Composed(admin', local)

\* The profile is left alone when it is active already or a write is under way.
LEMMA SwitchFacts ==
    ASSUME ReadsTypeOK, NEW p \in Profiles \cup {None}, SwitchProfile(p)
    PROVE  \/ UNCHANGED <<saved, admin, generation, inFlight, due, readLocks, token, readers,
                          view, health, evaluations>>
           \/ ProfileIsSwitched(p)
<1>1. CASE p = admin.profile \/ writing # NoWrite
  BY <1>1 DEF SwitchProfile, Shown
<1>2. CASE ~(p = admin.profile \/ writing # NoWrite)
  <2> DEFINE a == [profile |-> p, res |-> IF p = None THEN Unread ELSE saved[p]]
  <2>1. Switch(p)
    BY <1>2 DEF SwitchProfile
  <2>2. a \in Administrations
    <3>1. p # None => p \in Profiles
      OBVIOUS
    <3>2. Unread \in [Resources -> ReadResources]
      BY NoDataType DEF Unread
    <3>3. p # None => saved[p] \in [Resources -> ReadResources]
      BY <3>1 DEF ReadsTypeOK
    <3> QED
      BY <3>2, <3>3 DEF Administrations
  <2>3. \A r \in Resources : a.res[r].data = IF p = None THEN NoData ELSE saved[p][r].data
    BY NoDataType
  <2>4. a.profile = p /\ generation \in Nat
    BY DEF ReadsTypeOK
  <2>5. /\ Swapped(p)
        /\ health' = None /\ evaluations' = Outdated /\ view' = Composed(a, local)
    <3>1. \A q \in Profiles : (CASE q = admin.profile -> admin.res [] q = p -> Unread [] OTHER -> saved[q])
             = IF q = admin.profile THEN admin.res ELSE IF q = p THEN Unread ELSE saved[q]
      BY <1>2
    <3> QED
      BY <2>1, <3>1 DEF Switch, Swapped
  <2>6. /\ p # None => BeginReads(a, generation + 2, Resources, "full")
        /\ p = None => /\ admin' = a /\ generation' = generation + 1 /\ token' = 0
                       /\ inFlight' = FALSE /\ due' = FALSE /\ readLocks' = {} /\ UNCHANGED readers
    <3>1. CASE p = None
      BY <2>1, <3>1 DEF Switch, StopReading, UnlockAll
    <3>2. CASE p # None
      BY <2>1, <3>2 DEF Switch
    <3> QED
      BY <3>1, <3>2
  <2> HIDE DEF a
  <2>7. CASE p = None
    <3>1. /\ admin' \in Administrations /\ admin'.profile = p
          /\ \A r \in Resources : admin'.res[r].data = IF p = None THEN NoData ELSE saved[p][r].data
      BY <2>2, <2>3, <2>4, <2>6, <2>7
    <3>2. generation' \in Nat /\ generation' > generation /\ token' \in Nat
      BY <2>4, <2>6, <2>7
    <3>3. view' = Composed(admin', local)
      BY <2>5, <2>6, <2>7
    <3>4. p # admin.profile /\ writing = NoWrite
      BY <1>2
    <3>5. inFlight' \in BOOLEAN /\ due' = FALSE /\ readLocks' = {} /\ UNCHANGED readers
      BY <2>6, <2>7
    <3>6. ProfileIsSwitched(p)
      BY <2>5, <2>7, <3>1, <3>2, <3>3, <3>4, <3>5 DEF ProfileIsSwitched
    <3> QED
      BY <3>6
  <2>8. CASE p # None
    <3>1. p \in Profiles /\ generation + 2 \in Nat
      BY <2>4, <2>8
    <3>2. /\ admin' \in Administrations /\ admin'.profile = p
          /\ \A r \in Resources : /\ admin'.res[r].data = a.res[r].data
                                  /\ admin'.res[r].state = "Loading"
          /\ generation' = generation + 2 /\ token' = generation + 2
          /\ inFlight' = TRUE /\ due' = FALSE
          /\ readLocks' = {}
          /\ Spawned("full", p, generation + 2, Resources)
      BY <2>2, <2>4, <2>6, <2>8, <3>1, BeginFacts
    <3>3. Composed(a, local) = Composed(admin', local)
      BY <2>4, <3>2, ComposedFacts
    <3> QED
      <4>1. \A r \in Resources : admin'.res[r].data = IF p = None THEN NoData ELSE saved[p][r].data
        BY <2>3, <3>2
      <4>2. generation' \in Nat /\ generation' > generation /\ token' \in Nat
        BY <2>4, <3>2
      <4>3. Spawned("full", p, generation', Resources)
        BY <3>2
      <4>4. p # admin.profile /\ writing = NoWrite
        BY <1>2
      <4>5. inFlight' \in BOOLEAN /\ inFlight' /\ due' = FALSE
        BY <3>2
      <4>6. view' = Composed(admin', local)
        BY <2>5, <3>3
      <4>7. ProfileIsSwitched(p)
        BY <2>5, <2>8, <3>2, <4>1, <4>2, <4>3, <4>4, <4>5, <4>6 DEF ProfileIsSwitched
      <4> QED
        BY <4>7
  <2> QED
    BY <2>7, <2>8
<1> QED
  BY <1>1, <1>2

-----------------------------------------------------------------------------
(* What the answers do *)

\* A reader's place holds its next record, and the other readers stay.
LEMMA PlacedFacts ==
    ASSUME ReadsTypeOK, NEW n \in Readers, NEW rec \in {NoReader} \cup ReadRecords,
           readers' = [readers EXCEPT ![n] = rec]
    PROVE  /\ readers' \in [Readers -> {NoReader} \cup ReadRecords]
           /\ readers'[n] = rec
           /\ \A m \in Readers : m # n => readers'[m] = readers[m]
BY DEF ReadsTypeOK

\* A task that begins holds a reader's record.
LEMMA SpawnedFacts ==
    ASSUME ReadsTypeOK, NEW kind \in {"full", "part"}, NEW profile \in Profiles, NEW gen \in Nat,
           NEW rs \in SUBSET Resources, Spawned(kind, profile, gen, rs)
    PROVE  \E n \in Readers :
               /\ ~Reading(n)
               /\ readers' = [readers EXCEPT ![n] = Reader(kind, profile, gen, rs, gen)]
               /\ Reader(kind, profile, gen, rs, gen) \in ReadRecords
               /\ readers' \in [Readers -> {NoReader} \cup ReadRecords]
<1>1. PICK n \in Readers : ~Reading(n) /\ readers' = [readers EXCEPT ![n] = Reader(kind, profile, gen, rs, gen)]
  BY DEF Spawned
<1>2. Reader(kind, profile, gen, rs, gen) \in ReadRecords
  BY ReaderFacts
<1>3. readers' \in [Readers -> {NoReader} \cup ReadRecords]
  BY <1>1, <1>2, PlacedFacts
<1> QED
  BY <1>1, <1>2, <1>3

\* What a finished task's answer does, as far as it concerns the active profile.
Renewed(n) ==
    /\ Wanted(n) /\ Active
    /\ admin' \in Administrations /\ admin'.profile = admin.profile
    /\ \A r \in Resources :
           \/ admin'.res[r].data = admin.res[r].data /\ (admin'.res[r].state = "Ready" => admin'.res[r] = admin.res[r])
           \/ /\ readers[n].got[r].state = "Ready"
              /\ admin'.res[r].data = [of |-> readers[n].profile, ver |-> readers[n].got[r].ver]
    /\ view' = Composed(admin', local)
    /\ \/ RecomputeHealth
       \/ UNCHANGED <<health, evaluations>>

\* A detail does not change what loads, a refresh ends all of it.
Settled(n) ==
    \/ /\ readers[n].kind = "detail" /\ UNCHANGED <<inFlight, due>> /\ ReleaseReadLock(n)
       /\ \A r \in Resources : admin'.res[r].state = "Loading" => admin.res[r].state = "Loading"
    \/ /\ readers[n].kind # "detail" /\ UNCHANGED readLocks
       /\ \/ UNCHANGED <<admin, inFlight, due>>
          \/ inFlight' = FALSE /\ due' = TRUE
    
\* The answers of the finished tasks.
LEMMA HandledFacts ==
    ASSUME ReadsTypeOK, NEW n \in Readers, Handled(n)
    PROVE  /\ Reading(n) /\ readers' = [readers EXCEPT ![n] = NoReader]
           /\ UNCHANGED <<acts, generation, token, review, writing, acked>> /\ Others
           /\ Renewed(n) \/ UNCHANGED <<admin, view, health, evaluations>>
           /\ Settled(n)
<1> DEFINE r == readers[n]
<1>1. /\ Reading(n) /\ readers' = [readers EXCEPT ![n] = NoReader]
      /\ UNCHANGED <<acts, generation, token, review, writing, acked>> /\ Others
      /\ r \in ReadRecords
  BY ReaderIs DEF Handled, RefreshFinished, AuthenticationFailed, Failed, DetailFinished, DetailFailed, Answer
<1>2. r.profile \in Profiles /\ r.gen \in Nat /\ r.profile # None
  BY <1>1, ReadsAssumption DEF ReadRecords
<1>3. \A x \in Resources : r.got[x] \in {Unasked} \cup AdminAnswers /\ admin.res[x] \in ReadResources
  BY <1>1 DEF ReadsTypeOK, ReadRecords
<1>4. \A new \in [Resources -> ReadResources] :
         /\ [admin EXCEPT !.res = new] \in Administrations
         /\ [admin EXCEPT !.res = new].profile = admin.profile
         /\ [admin EXCEPT !.res = new].res = new
  BY DEF ReadsTypeOK, Administrations
<1>5. Wanted(n) => Active
  BY <1>2 DEF Wanted, Active
<1>6. CASE RefreshFinished(n)
  <2>1. CASE ~Wanted(n)
    BY <1>1, <1>6, <2>1 DEF RefreshFinished, Drop, Shown, Answer, Settled
  <2>2. CASE Wanted(n)
    <3> DEFINE new == [x \in Resources |-> IF r.got[x] = Unasked THEN admin.res[x]
                                           ELSE Applied(admin.res[x], r.gen, r.profile, r.got[x])]
    <3>1. Finish(new) /\ RefreshDeviceView /\ RecomputeHealth /\ Others /\ r.kind # "detail"
      BY <1>6, <2>2 DEF RefreshFinished, Answer
    <3>2. ASSUME NEW x \in Resources
          PROVE  /\ new[x] \in ReadResources
                 /\ \/ new[x].data = admin.res[x].data /\ (new[x].state = "Ready" => new[x] = admin.res[x])
                    \/ r.got[x].state = "Ready" /\ new[x].data = [of |-> r.profile, ver |-> r.got[x].ver]
      <4>1. CASE r.got[x] = Unasked
        BY <1>3, <4>1
      <4>2. CASE r.got[x] # Unasked
        <5>1. new[x] = Applied(admin.res[x], r.gen, r.profile, r.got[x]) /\ r.got[x] \in AdminAnswers
          BY <1>3, <4>2
        <5> QED
          BY <1>2, <1>3, <5>1, AppliedFacts
      <4> QED
        BY <4>1, <4>2
    <3>3. new = [x \in Resources |-> new[x]]
      OBVIOUS
    <3> HIDE DEF new
    <3>4. new \in [Resources -> ReadResources]
      BY <3>2, <3>3
    <3>5. admin' \in Administrations /\ admin'.profile = admin.profile /\ admin'.res = new
      BY <1>4, <3>1, <3>4 DEF Finish
    <3>6. view' = Composed(admin', local)
      BY <3>1 DEF RefreshDeviceView, Others
    <3>7. Renewed(n)
      BY <1>5, <2>2, <3>1, <3>2, <3>5, <3>6 DEF Renewed
    <3>8. Settled(n)
      BY <3>1 DEF Finish, Settled
    <3> QED
      BY <1>1, <3>7, <3>8
  <2> QED
    BY <2>1, <2>2
<1>7. ASSUME NEW new, new \in [Resources -> ReadResources], Finish(new), RefreshDeviceView, r.kind # "detail",
             \A x \in Resources : new[x].data = admin.res[x].data /\ new[x].state \notin {"Ready", "Loading"},
             RecomputeHealth \/ UNCHANGED <<health, evaluations>>, Wanted(n)
      PROVE  Renewed(n) /\ Settled(n)
  <2>1. admin' \in Administrations /\ admin'.profile = admin.profile /\ admin'.res = new
    BY <1>4, <1>7 DEF Finish
  <2>2. view' = Composed(admin', local)
    BY <1>1, <1>7 DEF RefreshDeviceView, Others
  <2>3. Renewed(n)
    BY <1>5, <1>7, <2>1, <2>2 DEF Renewed
  <2>4. Settled(n)
    BY <1>7 DEF Finish, Settled
  <2> QED
    BY <2>3, <2>4
<1>8. CASE AuthenticationFailed(n)
  <2>1. CASE ~Wanted(n)
    BY <1>1, <1>8, <2>1 DEF AuthenticationFailed, Drop, Shown, Answer, Settled
  <2>2. CASE Wanted(n)
    <3> DEFINE new == [x \in Resources |-> Unauthenticated(admin.res[x], r.gen)]
    <3>1. Finish(new) /\ RefreshDeviceView /\ RecomputeHealth /\ r.kind # "detail"
      BY <1>8, <2>2 DEF AuthenticationFailed, Answer
    <3>2. \A x \in Resources : /\ new[x] \in ReadResources /\ new[x].data = admin.res[x].data
                               /\ new[x].state \notin {"Ready", "Loading"}
      BY <1>2, <1>3, RefusedFacts
    <3>3. new = [x \in Resources |-> new[x]]
      OBVIOUS
    <3> HIDE DEF new
    <3>4. new \in [Resources -> ReadResources]
      BY <3>2, <3>3
    <3> QED
      BY <1>1, <1>7, <2>2, <3>1, <3>2, <3>4
  <2> QED
    BY <2>1, <2>2
<1>9. CASE Failed(n)
  <2>1. CASE ~Wanted(n)
    BY <1>1, <1>9, <2>1 DEF Failed, Drop, Shown, Answer, Settled
  <2>2. CASE Wanted(n)
    <3> DEFINE new == [x \in Resources |-> MarkedFailed(admin.res[x], r.gen)]
    <3>1. Finish(new) /\ RefreshDeviceView /\ UNCHANGED <<health, evaluations>> /\ r.kind # "detail"
      BY <1>9, <2>2 DEF Failed, Answer
    <3>2. \A x \in Resources : /\ new[x] \in ReadResources /\ new[x].data = admin.res[x].data
                               /\ new[x].state \notin {"Ready", "Loading"}
      BY <1>2, <1>3, RefusedFacts
    <3>3. new = [x \in Resources |-> new[x]]
      OBVIOUS
    <3> HIDE DEF new
    <3>4. new \in [Resources -> ReadResources]
      BY <3>2, <3>3
    <3> QED
      BY <1>1, <1>7, <2>2, <3>1, <3>2, <3>4
  <2> QED
    BY <2>1, <2>2
<1>10. CASE DetailFailed(n)
  <2>1. /\ ReleaseReadLock(n) /\ UNCHANGED <<admin, inFlight, due>> /\ Shown /\ r.kind = "detail"
    BY <1>10 DEF DetailFailed, Answer
  <2> QED
    BY <1>1, <2>1 DEF Settled, Shown
<1>11. CASE DetailFinished(n)
  <2>1. ReleaseReadLock(n) /\ UNCHANGED <<inFlight, due>> /\ r.kind = "detail" /\ r.got["devices"].state = "Ready"
    BY <1>11 DEF DetailFinished, Answer
  <2>2. CASE ~Wanted(n)
    BY <1>1, <1>11, <2>1, <2>2 DEF DetailFinished, Shown, Settled
  <2>3. CASE Wanted(n)
    <3> DEFINE d   == admin.res["devices"]
               data == IF d.data = NoData THEN d.data ELSE [of |-> r.profile, ver |-> r.got["devices"].ver]
               new == [admin.res EXCEPT !["devices"] = [d EXCEPT !.data = data]]
    <3>1. admin' = [admin EXCEPT !.res = new] /\ RefreshDeviceView /\ RecomputeHealth
      BY <1>4, <1>11, <2>3 DEF DetailFinished
    <3>2. r.got["devices"].ver \in Nat
      BY <1>3, <2>1 DEF Resources, AdminAnswers, Unasked
    <3>3. data \in ReadData /\ d \in ReadResources
      BY <1>2, <1>3, <3>2 DEF Resources, ReadResources, ReadData
    <3>4. [d EXCEPT !.data = data] \in ReadResources /\ [d EXCEPT !.data = data].data = data
          /\ [d EXCEPT !.data = data].state = d.state /\ (data = d.data => [d EXCEPT !.data = data] = d)
      BY <3>3 DEF ReadResources
    <3>5. new \in [Resources -> ReadResources] /\ new["devices"] = [d EXCEPT !.data = data]
          /\ new["users"] = admin.res["users"]
      BY <3>4 DEF ReadsTypeOK, Resources
    <3>6. data = d.data \/ data = [of |-> r.profile, ver |-> r.got["devices"].ver]
      OBVIOUS
    <3>7. admin' \in Administrations /\ admin'.profile = admin.profile /\ admin'.res = new
      BY <1>4, <3>1, <3>5
    <3> HIDE DEF new, data
    <3>8. view' = Composed(admin', local)
      BY <1>1, <3>1 DEF RefreshDeviceView, Others
    <3>9. \A x \in Resources :
             /\ \/ new[x].data = admin.res[x].data /\ (new[x].state = "Ready" => new[x] = admin.res[x])
                \/ r.got[x].state = "Ready" /\ new[x].data = [of |-> r.profile, ver |-> r.got[x].ver]
             /\ new[x].state = "Loading" => admin.res[x].state = "Loading"
      BY <2>1, <3>4, <3>5, <3>6 DEF Resources
    <3>10. Renewed(n)
      BY <1>5, <2>3, <3>1, <3>7, <3>8, <3>9 DEF Renewed
    <3>11. Settled(n)
      BY <2>1, <3>7, <3>9 DEF Settled
    <3> QED
      BY <1>1, <3>10, <3>11
  <2> QED
    BY <2>2, <2>3
<1> QED
  BY <1>6, <1>8, <1>9, <1>10, <1>11 DEF Handled

-----------------------------------------------------------------------------
(* What the steps that change the profile have in common *)

Choosing == ActivateLocal \/ ActivateProfile \/ ProfileProbed \/ CredentialGone

Unswitched == UNCHANGED <<saved, admin, generation, inFlight, due, readLocks, token, readers, view, health, evaluations>>

\* A profile becomes active only when it was chosen last, by the answer awaited.
LEMMA ChoosingFacts ==
    ASSUME ReadsTypeOK, Choosing
    PROVE  /\ Kept /\ acts' \in Nat
           /\ probe' \in Profiles \cup {None} /\ chosen' \in Profiles \cup {None}
           /\ probes' \in [Profiles -> Nat]
           /\ probe' = None \/ (probe' = probe /\ chosen' = chosen) \/ probe' = chosen'
           /\ \/ Unswitched
              \/ ProfileIsSwitched(None)
              \/ \E p \in Profiles : ProfileIsSwitched(p) /\ probe = p /\ chosen' = chosen
<1>1. acts + 1 \in Nat
  BY DEF ReadsTypeOK
<1>2. CASE ActivateLocal
  BY <1>1, <1>2, SwitchFacts DEF ActivateLocal, Act, Unswitched, ReadsTypeOK
<1>3. CASE CredentialGone
  BY <1>1, <1>3, SwitchFacts DEF CredentialGone, Act, Unswitched, ReadsTypeOK
<1>4. CASE ActivateProfile
  <2>1. PICK p \in Profiles : chosen' = p /\ probe' = p /\ probes' = [probes EXCEPT ![p] = @ + 1]
    BY <1>4 DEF ActivateProfile
  <2>2. probes' \in [Profiles -> Nat]
    BY <2>1 DEF ReadsTypeOK
  <2> QED
    BY <1>1, <1>4, <2>1, <2>2 DEF ActivateProfile, Act, Shown, Unswitched
<1>5. CASE ProfileProbed
  <2>1. PICK p \in Profiles, reachable \in BOOLEAN :
           /\ probes[p] > 0
           /\ probes' = [probes EXCEPT ![p] = @ - 1]
           /\ probe' = IF Awaited(p) THEN None ELSE probe
           /\ IF Awaited(p) /\ reachable THEN SwitchProfile(p)
              ELSE UNCHANGED <<saved, admin, generation, inFlight, due, readLocks, token, readers>> /\ Shown
           /\ UNCHANGED <<acts, chosen>> /\ Kept
    BY <1>5 DEF ProfileProbed
  <2>2. probes' \in [Profiles -> Nat]
    BY <2>1 DEF ReadsTypeOK
  <2>3. Unswitched \/ (ProfileIsSwitched(p) /\ probe = p)
    BY <2>1, SwitchFacts DEF Awaited, Shown, Unswitched
  <2> QED
    BY <2>1, <2>2, <2>3 DEF ReadsTypeOK
<1> QED
  BY <1>2, <1>3, <1>4, <1>5 DEF Choosing

-----------------------------------------------------------------------------
(* Type correctness *)

\* Evaluations lose what is outdated and gain one of the active profile.
LEMMA OutdatedFacts ==
    ASSUME ReadsTypeOK
    PROVE  Outdated \subseteq [of : Profiles, latest : BOOLEAN] /\ \A e \in Outdated : ~e.latest
<1>1. ASSUME NEW e \in evaluations
      PROVE  [e EXCEPT !.latest = FALSE] \in [of : Profiles, latest : BOOLEAN] /\ ~[e EXCEPT !.latest = FALSE].latest
  <2>1. e \in [of : Profiles, latest : BOOLEAN]
    BY <1>1 DEF ReadsTypeOK
  <2>2. [e EXCEPT !.latest = FALSE] \in [of : Profiles, latest : BOOLEAN]
    BY <2>1
  <2>3. [e EXCEPT !.latest = FALSE].latest = FALSE
    BY <2>1
  <2> QED
    BY <2>2, <2>3
<1> QED
  BY <1>1 DEF Outdated

LEMMA HealthFacts ==
    ASSUME ReadsTypeOK, admin' \in Administrations, RecomputeHealth
    PROVE  /\ health' \in {None, health}
           /\ evaluations' \subseteq [of : Profiles, latest : BOOLEAN]
           /\ \A e \in evaluations' : e.latest => e.of = admin'.profile
<1>1. CASE admin'.profile = None
  BY <1>1, OutdatedFacts DEF RecomputeHealth
<1>2. CASE admin'.profile # None
  <2>1. admin'.profile \in Profiles
    BY <1>2 DEF Administrations
  <2> DEFINE asked == [of |-> admin'.profile, latest |-> TRUE]
  <2>2. asked \in [of : Profiles, latest : BOOLEAN] /\ asked.of = admin'.profile
    BY <2>1
  <2>3. health' = health /\ evaluations' = Outdated \cup {asked}
    BY <1>2 DEF RecomputeHealth
  <2> HIDE DEF asked
  <2> QED
    BY <2>2, <2>3, OutdatedFacts
<1> QED
  BY <1>1, <1>2

LEMMA InitTypes == ReadsInit => ReadsTypeOK /\ Standing
<1> SUFFICES ASSUME ReadsInit
             PROVE  ReadsTypeOK /\ Standing
  OBVIOUS
<1>1. Unread \in [Resources -> ReadResources]
  BY NoDataType DEF Unread
<1>2. readers \in [Readers -> {NoReader} \cup ReadRecords]
  BY DEF ReadsInit
<1>3. admin \in [profile : Profiles \cup {None}, res : [Resources -> ReadResources]]
  BY <1>1, ReadsAssumption DEF ReadsInit
<1>4. saved \in [Profiles -> [Resources -> ReadResources]]
  BY <1>1 DEF ReadsInit
<1>5. /\ review \in [gen : Nat, profile : Profiles \cup {None}, acked : Nat]
      /\ writing \in [profile : Profiles \cup {None}, over : SUBSET Resources, sent : BOOLEAN]
  BY DEF ReadsInit, NoReview, NoWrite
<1>6. /\ server \in [Profiles -> [Resources -> Nat]] /\ acked \in [Profiles -> [Resources -> Nat]]
      /\ probes \in [Profiles -> Nat] /\ evaluations \subseteq [of : Profiles, latest : BOOLEAN]
      /\ {probe, chosen, health} \subseteq Profiles \cup {None}
      /\ readLocks \subseteq Profiles /\ generation = 0 /\ token = 0 /\ acts = 0
      /\ inFlight = FALSE /\ due = FALSE /\ scope \in ReadBounds
  BY ReadsAssumption DEF ReadsInit
<1>7. ReadsTypeOK
  BY <1>2, <1>3, <1>4, <1>5, <1>6 DEF ReadsTypeOK
<1>8. Standing
  BY ReadsAssumption DEF ReadsInit, Standing, Active
<1> QED
  BY <1>7, <1>8

\* Reads of the active profile that begin.
LEMMA RefreshedTypes ==
    ASSUME ReadsTypeOK, Standing, StartUp \/ RefreshAll \/ TickRefresh \/ RefreshView \/ WriteFinished
    PROVE  /\ Active /\ ReadsTypeOK' /\ Standing'
           /\ \E rs \in SUBSET Resources, kind \in {"full", "part"} :
                  /\ Refreshes(rs, kind)
                  /\ \/ UNCHANGED <<writing, acked>>
                     \/ WriteFinished /\ rs = writing.over
<1>1. Active /\ admin \in Administrations /\ admin.profile \in Profiles
  BY RefreshActions DEF Standing, ReadsTypeOK, Active, Administrations
<1>2. writing.over \in SUBSET Resources
  BY DEF ReadsTypeOK
<1>3. PICK rs \in SUBSET Resources, kind \in {"full", "part"} :
         /\ Refreshes(rs, kind)
         /\ \/ UNCHANGED <<writing, acked>>
            \/ WriteFinished /\ rs = writing.over
  BY <1>2, RefreshActions
<1>4. generation + 1 \in Nat /\ generation' = generation + 1
  BY <1>3 DEF Refreshes, BeginReads, ReadsTypeOK
<1>5. /\ admin' \in Administrations /\ admin'.profile = admin.profile
      /\ token' = generation + 1 /\ inFlight' = TRUE /\ due' = FALSE /\ readLocks' = {}
      /\ Spawned(kind, admin.profile, generation + 1, rs)
  BY <1>1, <1>3, <1>4, BeginFacts DEF Refreshes
<1>6. readers' \in [Readers -> {NoReader} \cup ReadRecords]
  BY <1>1, <1>4, <1>5, SpawnedFacts
<1>7. /\ acked' \in [Profiles -> [Resources -> Nat]]
      /\ writing' \in [profile : Profiles \cup {None}, over : SUBSET Resources, sent : BOOLEAN]
      /\ UNCHANGED writing \/ writing' = NoWrite
  <2>1. CASE UNCHANGED <<writing, acked>>
    BY <2>1 DEF ReadsTypeOK
  <2>2. CASE WriteFinished
    <3>1. acked' = [acked EXCEPT ![writing.profile] = server[writing.profile]] /\ writing' = NoWrite
          /\ writing.profile = admin.profile
      BY <2>2 DEF WriteFinished, Standing
    <3>2. server[writing.profile] \in [Resources -> Nat]
      BY <1>1, <3>1 DEF ReadsTypeOK
    <3> QED
      BY <3>1, <3>2 DEF ReadsTypeOK, NoWrite
  <2> QED
    BY <1>3, <2>1, <2>2
<1>8. acts' \in Nat
  BY RefreshActions DEF ReadsTypeOK
<1>9. UNCHANGED <<scope, saved, probe, probes, chosen, server, local, view, health, evaluations, review>>
  BY <1>3 DEF Refreshes, Others, Shown
<1>10. ReadsTypeOK'
  BY <1>4, <1>5, <1>6, <1>7, <1>8, <1>9 DEF ReadsTypeOK, Administrations
<1>11. Standing'
  BY <1>1, <1>4, <1>5, <1>7 DEF Standing, Active, ReadsTypeOK
<1> QED
  BY <1>1, <1>3, <1>10, <1>11

\* A detail of the active profile's device begins.
LEMMA DetailStarts ==
    ASSUME ReadsTypeOK, Standing, StartDetail
    PROVE  /\ ReadsTypeOK' /\ Standing'
           /\ \E n \in Readers :
                /\ ~Reading(n)
                /\ readers' = [readers EXCEPT ![n] = Reader("detail", admin.profile, generation, {"devices"}, token)]
                /\ Reader("detail", admin.profile, generation, {"devices"}, token) \in ReadRecords
<1> DEFINE rec == Reader("detail", admin.profile, generation, {"devices"}, token)
<1>1. admin.profile \in Profiles /\ FreeReader # {} /\ Spawn(rec)
  BY DEF StartDetail, ReadsTypeOK, Active
<1>2. rec \in ReadRecords
  BY <1>1, ReaderFacts DEF ReadsTypeOK, Resources
<1>3. PICK n \in Readers : ~Reading(n) /\ readers' = [readers EXCEPT ![n] = rec]
  BY <1>1, SpawnFacts
<1>4. readers' \in [Readers -> {NoReader} \cup ReadRecords]
  BY <1>2, <1>3, PlacedFacts
<1>5. readLocks' \subseteq Profiles /\ acts' \in Nat
  BY <1>1 DEF StartDetail, Act, ReadsTypeOK
<1> HIDE DEF rec
<1>6. UNCHANGED <<scope, admin, saved, generation, inFlight, due, token, probe, probes,
               chosen, review, writing, server, acked, health, evaluations>>
  BY DEF StartDetail, Others, Shown
<1>7. ReadsTypeOK'
  BY <1>4, <1>5, <1>6 DEF ReadsTypeOK
<1>8. Standing'
  BY <1>6 DEF Standing, Active
<1> QED
  BY <1>2, <1>3, <1>7, <1>8 DEF rec

\* A task works on, or notices that it is cancelled.
LEMMA WorkFacts ==
    ASSUME ReadsTypeOK, NEW n \in Readers, ReaderWorks(n)
    PROVE  \E rec \in {NoReader} \cup ReadRecords :
              /\ Reading(n) /\ Becomes(n, rec)
              /\ rec = NoReader => Cancelled(n)
              /\ rec # NoReader =>
                   /\ rec.kind = readers[n].kind /\ rec.profile = readers[n].profile
                   /\ rec.gen = readers[n].gen /\ rec.token = readers[n].token
                   /\ \A r \in Resources :
                        \/ rec.got[r] = readers[n].got[r]
                        \/ rec.got[r].state # "Ready"
                        \/ rec.got[r].ver = server[rec.profile][r]
<1> DEFINE r == readers[n]
<1>1. r \in ReadRecords /\ Reading(n)
  BY ReaderIs DEF ReaderWorks, TakeToken, ReadOne, NoticeCancelled
<1>2. ASSUME NEW s \in {"token", "reading", "AuthenticationFailed", "Failed"}
      PROVE  [r EXCEPT !.step = s] \in ReadRecords
  BY <1>1 DEF ReadRecords
<1>3. CASE TakeToken(n)
  <2>1. PICK s \in {"reading", "AuthenticationFailed"} : Becomes(n, [r EXCEPT !.step = s])
    BY <1>3 DEF TakeToken
  <2>2. [r EXCEPT !.step = s] \in ReadRecords
    BY <1>2
  <2> QED
    BY <1>1, <2>1, <2>2, ReaderIs DEF ReadRecords
<1>4. CASE NoticeCancelled(n)
  <2>1. CASE Becomes(n, NoReader)
    BY <1>1, <1>4, <2>1 DEF NoticeCancelled
  <2>2. CASE \E s \in {"Failed", "AuthenticationFailed"} : Becomes(n, [r EXCEPT !.step = s])
    <3>1. PICK s \in {"Failed", "AuthenticationFailed"} : Becomes(n, [r EXCEPT !.step = s])
      BY <2>2
    <3>2. [r EXCEPT !.step = s] \in ReadRecords
      BY <1>2
    <3> QED
      BY <1>1, <3>1, <3>2, ReaderIs DEF ReadRecords
  <2> QED
    BY <1>4, <2>1, <2>2 DEF NoticeCancelled
<1>5. CASE ReadOne(n)
  <2>1. PICK x \in r.todo :
        \E answer \in {[state |-> "Ready", ver |-> server[r.profile][x]]} \cup
                      (IF May("refusal") THEN {[state |-> s, ver |-> 0] : s \in {"Failed", "Forbidden"}} ELSE {}) :
           Becomes(n, [r EXCEPT !.todo = @ \ {x}, !.got[x] = answer])
    BY <1>5 DEF ReadOne
  <2>2. PICK answer \in {[state |-> "Ready", ver |-> server[r.profile][x]]} \cup
                      (IF May("refusal") THEN {[state |-> s, ver |-> 0] : s \in {"Failed", "Forbidden"}} ELSE {}) :
           Becomes(n, [r EXCEPT !.todo = @ \ {x}, !.got[x] = answer])
    BY <2>1
  <2>3. x \in Resources /\ server[r.profile][x] \in Nat
    BY <1>1 DEF ReadRecords, ReadsTypeOK
  <2>4. answer \in AdminAnswers /\ (answer.state = "Ready" => answer.ver = server[r.profile][x])
    <3>1. CASE answer = [state |-> "Ready", ver |-> server[r.profile][x]]
      BY <2>3, <3>1 DEF AdminAnswers
    <3>2. CASE \E s \in {"Failed", "Forbidden"} : answer = [state |-> s, ver |-> 0]
      BY <3>2 DEF AdminAnswers
    <3> QED
      BY <2>2, <3>1, <3>2
  <2> DEFINE rec == [r EXCEPT !.todo = @ \ {x}, !.got[x] = answer]
  <2>5. /\ rec.kind = r.kind /\ rec.profile = r.profile /\ rec.gen = r.gen /\ rec.token = r.token
        /\ rec.got = [r.got EXCEPT ![x] = answer] /\ rec.todo = r.todo \ {x} /\ rec.step = r.step
    BY <1>1 DEF ReadRecords
  <2>6. rec.got \in [Resources -> {Unasked} \cup AdminAnswers]
    BY <1>1, <2>4, <2>5 DEF ReadRecords
  <2>7. rec \in ReadRecords
    BY <1>1, <2>5, <2>6 DEF ReadRecords
  <2>8. \A y \in Resources : rec.got[y] = IF y = x THEN answer ELSE r.got[y]
    BY <1>1, <2>5 DEF ReadRecords
  <2>9. Becomes(n, rec)
    BY <2>2
  <2> HIDE DEF rec
  <2>10. rec # NoReader
    BY <2>7, ReaderIs
  <2>11. ASSUME NEW y \in Resources
         PROVE  \/ rec.got[y] = r.got[y]
                \/ rec.got[y].state # "Ready"
                \/ rec.got[y].ver = server[rec.profile][y]
    BY <2>4, <2>5, <2>8
  <2> QED
    BY <1>1, <2>5, <2>7, <2>9, <2>10, <2>11
<1> QED
  BY <1>3, <1>4, <1>5 DEF ReaderWorks

Writing == [profile : Profiles \cup {None}, over : SUBSET Resources, sent : BOOLEAN]

\* A change is reviewed and accepted, and reaches the server.
LEMMA WriteTypes ==
    ASSUME ReadsTypeOK, Standing, OpenReview \/ CloseReview \/ Accept \/ WriteReaches
    PROVE  ReadsTypeOK' /\ Standing'
<1>1. CASE OpenReview \/ CloseReview
  <2>1. review' \in [gen : Nat, profile : Profiles \cup {None}, acked : Nat] /\ acts' \in Nat
    <3>1. CASE CloseReview
      BY <3>1 DEF CloseReview, NoReview, ReadsTypeOK
    <3>2. CASE OpenReview
      <4>1. /\ review' = [gen |-> generation, profile |-> admin.profile, acked |-> acked[admin.profile]["devices"]]
            /\ admin.profile \in Profiles /\ acts' = acts + 1
        BY <3>2 DEF OpenReview, Active, ReadsTypeOK
      <4>2. acked[admin.profile]["devices"] \in Nat /\ generation \in Nat /\ acts \in Nat
        BY <4>1 DEF ReadsTypeOK, Resources
      <4> QED
        BY <4>1, <4>2
    <3> QED
      BY <1>1, <3>1, <3>2
  <2>2. UNCHANGED <<admin, generation, inFlight, due, readLocks, token, readers, writing, acked>> /\ Others /\ Shown
    BY <1>1 DEF OpenReview, CloseReview
  <2> QED
    BY <2>1, <2>2 DEF ReadsTypeOK, Standing, Active, Others, Shown
<1>2. CASE Accept
  <2>1. /\ UNCHANGED <<acts, admin, generation, inFlight, due, readLocks, token, readers, acked>> /\ Others /\ Shown
        /\ Active /\ review' = NoReview
        /\ \E over \in SUBSET Resources : writing' = [profile |-> admin.profile, over |-> over, sent |-> FALSE]
    BY <1>2 DEF Accept, Resources
  <2>2. PICK over \in SUBSET Resources : writing' = [profile |-> admin.profile, over |-> over, sent |-> FALSE]
    BY <2>1
  <2>3. writing' \in Writing
    BY <2>2 DEF ReadsTypeOK, Writing
  <2>4. writing'.profile = admin.profile
    BY <2>2
  <2>5. review' \in [gen : Nat, profile : Profiles \cup {None}, acked : Nat]
    BY <2>1 DEF NoReview
  <2>6. ReadsTypeOK'
    BY <2>1, <2>3, <2>5 DEF ReadsTypeOK, Others, Shown, Writing
  <2>7. Standing'
    BY <2>1, <2>4 DEF Standing, Active
  <2> QED
    BY <2>6, <2>7
<1>3. CASE WriteReaches
  <2>1. writing.profile \in Profiles /\ writing \in Writing /\ Active /\ writing.profile = admin.profile
    BY <1>3 DEF WriteReaches, Standing, Active, ReadsTypeOK, Writing
  <2>2. writing' = [writing EXCEPT !.sent = TRUE]
    BY <1>3 DEF WriteReaches
  <2>3. writing' \in Writing
    BY <2>1, <2>2 DEF Writing
  <2>4. writing'.profile = writing.profile
    BY <2>1, <2>2 DEF Writing
  <2>5. server' \in [Profiles -> [Resources -> Nat]]
    BY <1>3, <2>1 DEF WriteReaches, ReadsTypeOK
  <2>6. UNCHANGED <<scope, acts, admin, saved, generation, inFlight, due, readLocks, token, readers, probe,
                   probes, chosen, review, acked, local, view, health, evaluations>>
    BY <1>3 DEF WriteReaches
  <2>7. ReadsTypeOK'
    BY <2>3, <2>5, <2>6 DEF ReadsTypeOK, Writing
  <2>8. Standing'
    BY <2>1, <2>4, <2>6 DEF Standing, Active
  <2> QED
    BY <2>7, <2>8
<1> QED
  BY <1>1, <1>2, <1>3

\* The active profile changes, or none does.
LEMMA ChoosingTypes ==
    ASSUME ReadsTypeOK, Standing, Choosing
    PROVE  ReadsTypeOK' /\ Standing'
<1>1. /\ Kept /\ acts' \in Nat
      /\ probe' \in Profiles \cup {None} /\ chosen' \in Profiles \cup {None}
      /\ probes' \in [Profiles -> Nat]
      /\ \/ Unswitched
         \/ \E p \in Profiles \cup {None} : ProfileIsSwitched(p)
  BY ChoosingFacts
<1>2. CASE Unswitched
  BY <1>1, <1>2 DEF Unswitched, Kept, ReadsTypeOK, Standing, Active
<1>3. ASSUME NEW p \in Profiles \cup {None}, ProfileIsSwitched(p)
      PROVE  ReadsTypeOK' /\ Standing'
  <2>1. /\ generation' \in Nat /\ generation' # 0 /\ writing' = NoWrite
    BY <1>1, <1>3 DEF ProfileIsSwitched, Kept, ReadsTypeOK
  <2>2. readers' \in [Readers -> {NoReader} \cup ReadRecords]
    <3>1. CASE UNCHANGED readers
      BY <3>1 DEF ReadsTypeOK
    <3>2. CASE p # None /\ Spawned("full", p, generation', Resources)
      <4>1. p \in Profiles
        BY <3>2
      <4> QED
        BY <2>1, <3>2, <4>1, SpawnedFacts
    <3> QED
      BY <1>3, <3>1, <3>2 DEF ProfileIsSwitched
  <2>3. saved' \in [Profiles -> [Resources -> ReadResources]]
    <3>1. /\ admin.res \in [Resources -> ReadResources] /\ Unread \in [Resources -> ReadResources]
          /\ \A q \in Profiles : saved[q] \in [Resources -> ReadResources]
      BY NoDataType DEF ReadsTypeOK, Unread
    <3> QED
      BY <1>3, <3>1 DEF ProfileIsSwitched, Swapped
  <2>4. evaluations' \subseteq [of : Profiles, latest : BOOLEAN] /\ health' = None
    BY <1>3, OutdatedFacts DEF ProfileIsSwitched
  <2>5. /\ admin' \in [profile : Profiles \cup {None}, res : [Resources -> ReadResources]]
        /\ token' \in Nat /\ readLocks' = {} /\ inFlight' \in BOOLEAN /\ due' = FALSE
    BY <1>3 DEF ProfileIsSwitched, Administrations
  <2>6. ReadsTypeOK'
    BY <1>1, <2>1, <2>2, <2>3, <2>4, <2>5 DEF ReadsTypeOK, Kept
  <2>7. Standing'
    BY <2>1 DEF Standing
  <2> QED
    BY <2>6, <2>7
<1> QED
  BY <1>1, <1>2, <1>3

\* An answer is handled.
LEMMA HandledTypes ==
    ASSUME ReadsTypeOK, Standing, NEW n \in Readers, Handled(n)
    PROVE  ReadsTypeOK' /\ Standing'
<1>1. /\ Reading(n) /\ readers' = [readers EXCEPT ![n] = NoReader]
      /\ UNCHANGED <<acts, generation, token, review, writing, acked>> /\ Others
      /\ Renewed(n) \/ UNCHANGED <<admin, view, health, evaluations>>
      /\ Settled(n)
  BY HandledFacts
<1>2. readers' \in [Readers -> {NoReader} \cup ReadRecords]
  BY <1>1, PlacedFacts
<1>3. admin' \in Administrations /\ admin'.profile = admin.profile
  BY <1>1 DEF Renewed, ReadsTypeOK, Administrations
<1>4. health' \in {None, health} /\ evaluations' \subseteq [of : Profiles, latest : BOOLEAN]
  BY <1>1, <1>3, HealthFacts DEF Renewed, ReadsTypeOK
<1>5. inFlight' \in BOOLEAN /\ due' \in BOOLEAN /\ (inFlight' => ~due')
  <2>1. (inFlight' = inFlight /\ due' = due) \/ (inFlight' = FALSE /\ due' = TRUE)
    BY <1>1 DEF Settled
  <2>2. inFlight \in BOOLEAN /\ due \in BOOLEAN /\ (inFlight => ~due)
    BY DEF ReadsTypeOK
  <2>3. CASE inFlight' = inFlight /\ due' = due
    BY <2>2, <2>3
  <2>4. CASE inFlight' = FALSE /\ due' = TRUE
    BY <2>4
  <2> QED
    BY <2>1, <2>3, <2>4
<1>6. readLocks' \subseteq Profiles
  BY <1>1 DEF Settled, ReleaseReadLock, ReadsTypeOK
<1>7. ReadsTypeOK'
  BY <1>1, <1>2, <1>3, <1>4, <1>5, <1>6 DEF ReadsTypeOK, Administrations, Others
<1>8. Standing'
  BY <1>1, <1>3 DEF Standing, Active
<1> QED
  BY <1>7, <1>8

\* Every step keeps the types.
LEMMA TypeStep ==
    ASSUME ReadsTypeOK, Standing, [ReadsNext]_readsVars
    PROVE  ReadsTypeOK' /\ Standing'
<1>1. CASE UNCHANGED readsVars
  BY <1>1 DEF readsVars, ReadsTypeOK, Standing, Active
<1>2. CASE StartUp \/ RefreshAll \/ TickRefresh \/ RefreshView \/ WriteFinished
  BY <1>2, RefreshedTypes
<1>3. CASE StartDetail
  BY <1>3, DetailStarts
<1>4. ASSUME NEW n \in Readers, ReaderWorks(n)
      PROVE  ReadsTypeOK' /\ Standing'
  <2>1. PICK rec \in {NoReader} \cup ReadRecords : Becomes(n, rec)
    BY <1>4, WorkFacts
  <2>2. readers' \in [Readers -> {NoReader} \cup ReadRecords]
    BY <2>1, PlacedFacts DEF Becomes
  <2> QED
    BY <2>1, <2>2 DEF Becomes, ReadsTypeOK, Standing, Active
<1>5. ASSUME NEW n \in Readers, Handled(n)
      PROVE  ReadsTypeOK' /\ Standing'
  BY <1>5, HandledTypes
<1>6. CASE Evaluated
  <2>1. evaluations' \subseteq evaluations /\ health' \in Profiles \cup {None}
    BY <1>6 DEF Evaluated, ReadsTypeOK
  <2>2. UNCHANGED <<scope, acts, admin, saved, generation, inFlight, due, readLocks, token, readers, probe,
                       probes, chosen, review, writing, server, acked, local, view>>
    BY <1>6 DEF Evaluated
  <2> QED
    BY <2>1, <2>2 DEF ReadsTypeOK, Standing, Active
<1>7. CASE ActivateLocal \/ ActivateProfile \/ ProfileProbed \/ CredentialGone
  BY <1>7, ChoosingTypes DEF Choosing
<1>8. CASE OpenReview \/ CloseReview \/ Accept \/ WriteReaches
  BY <1>8, WriteTypes
<1>9. CASE LocalChanges
  BY <1>9 DEF LocalChanges, Act, ReadsTypeOK, Standing, Active
<1> QED
  BY <1>1, <1>2, <1>3, <1>4, <1>5, <1>6, <1>7, <1>8, <1>9 DEF ReadsNext

\* The types of the administration's state hold throughout (App.admin*).
THEOREM TypeCorrect == ReadsSpec => []ReadsTypeOK
<1>1. ReadsInit => ReadsTypeOK /\ Standing
  BY InitTypes
<1>2. (ReadsTypeOK /\ Standing) /\ [ReadsNext]_readsVars => (ReadsTypeOK /\ Standing)'
  BY TypeStep
<1> QED
  BY <1>1, <1>2, PTL DEF ReadsSpec

-----------------------------------------------------------------------------
(* What is shown is the active profile's *)

\* What is kept of a profile is that profile's, an evaluation of the latest
\* data is of the active profile's, and so are the findings and the list.
Own ==
    /\ \A p \in Profiles : \A r \in Resources : saved[p][r].data.of \in {None, p}
    /\ \A r \in Resources : admin.res[r].data.of \in {None, admin.profile}
    /\ \A e \in evaluations : e.latest => e.of = admin.profile
    /\ health \in {None, admin.profile}
    /\ view = Composed(admin, local)

\* Reads that begin change no data.
LEMMA OwnRefreshed ==
    ASSUME ReadsTypeOK, Standing, Own, StartUp \/ RefreshAll \/ TickRefresh \/ RefreshView \/ WriteFinished
    PROVE  Own'
<1>1. PICK rs \in SUBSET Resources, kind \in {"full", "part"} : Refreshes(rs, kind)
  BY RefreshedTypes
<1>2. admin \in Administrations /\ admin.profile \in Profiles /\ generation + 1 \in Nat
  BY RefreshedTypes DEF ReadsTypeOK, Active, Administrations
<1>3. admin'.profile = admin.profile /\ \A r \in Resources : admin'.res[r].data = admin.res[r].data
  BY <1>1, <1>2, BeginFacts DEF Refreshes
<1>4. UNCHANGED <<saved, local, view, health, evaluations>>
  BY <1>1 DEF Refreshes, Others, Shown
<1>5. Composed(admin', local) = Composed(admin, local)
  BY <1>3, ComposedFacts
<1> QED
  BY <1>3, <1>4, <1>5 DEF Own

\* A profile that becomes active brings what was kept of it.
LEMMA OwnSwitched ==
    ASSUME ReadsTypeOK, Standing, Own, Choosing
    PROVE  Own'
<1>1. Kept /\ (Unswitched \/ \E p \in Profiles \cup {None} : ProfileIsSwitched(p))
  BY ChoosingFacts
<1>2. CASE Unswitched
  BY <1>1, <1>2 DEF Unswitched, Kept, Own
<1>3. ASSUME NEW p \in Profiles \cup {None}, ProfileIsSwitched(p)
      PROVE  Own'
  <2>1. \A q \in Profiles : \A r \in Resources : saved'[q][r].data.of \in {None, q}
    <3>1. \A q \in Profiles : saved'[q] = IF q = admin.profile THEN admin.res
                                          ELSE IF q = p THEN Unread ELSE saved[q]
      BY <1>3 DEF ProfileIsSwitched, Swapped
    <3>2. \A r \in Resources : Unread[r].data.of = None
      BY NoDataType DEF NoData
    <3> QED
      BY <3>1, <3>2 DEF Own
  <2>2. admin'.profile = p
    BY <1>3 DEF ProfileIsSwitched
  <2>3. \A r \in Resources : admin'.res[r].data.of \in {None, p}
    <3>1. \A r \in Resources : admin'.res[r].data = IF p = None THEN NoData ELSE saved[p][r].data
      BY <1>3 DEF ProfileIsSwitched
    <3>2. p # None => p \in Profiles
      OBVIOUS
    <3> QED
      BY <3>1, <3>2 DEF Own, NoData
  <2>4. health' = None /\ (\A e \in evaluations' : ~e.latest) /\ view' = Composed(admin', local')
    BY <1>1, <1>3, OutdatedFacts DEF ProfileIsSwitched, Kept
  <2> QED
    BY <2>1, <2>2, <2>3, <2>4 DEF Own
<1> QED
  BY <1>1, <1>2, <1>3

\* An answer that counts is of the active profile.
LEMMA OwnHandled ==
    ASSUME ReadsTypeOK, Own, NEW n \in Readers, Handled(n)
    PROVE  Own'
<1>1. Others /\ (Renewed(n) \/ UNCHANGED <<admin, view, health, evaluations>>)
  BY HandledFacts
<1>2. CASE UNCHANGED <<admin, view, health, evaluations>>
  BY <1>1, <1>2 DEF Own, Others
<1>3. CASE Renewed(n)
  <2>1. admin'.profile = admin.profile /\ admin' \in Administrations
    BY <1>3 DEF Renewed
  <2>2. \A r \in Resources : admin'.res[r].data.of \in {None, admin.profile}
    <3>1. ASSUME NEW r \in Resources
          PROVE  \/ admin'.res[r].data = admin.res[r].data
                 \/ admin'.res[r].data = [of |-> admin.profile, ver |-> readers[n].got[r].ver]
      BY <1>3 DEF Renewed, Wanted
    <3>2. \A r \in Resources : admin.res[r].data.of \in {None, admin.profile}
      BY DEF Own
    <3>3. \A v : [of |-> admin.profile, ver |-> v].of = admin.profile
      OBVIOUS
    <3> SUFFICES ASSUME NEW r \in Resources
                 PROVE  admin'.res[r].data.of \in {None, admin.profile}
      OBVIOUS
    <3>4. CASE admin'.res[r].data = admin.res[r].data
      BY <3>2, <3>4
    <3>5. CASE admin'.res[r].data = [of |-> admin.profile, ver |-> readers[n].got[r].ver]
      BY <3>3, <3>5
    <3> QED
      BY <3>1, <3>4, <3>5
  <2>3. health' \in {None, admin.profile} /\ \A e \in evaluations' : e.latest => e.of = admin.profile
    BY <1>3, <2>1, HealthFacts DEF Renewed, Own
  <2>4. view' = Composed(admin', local') /\ saved' = saved
    BY <1>1, <1>3 DEF Renewed, Others
  <2> QED
    BY <2>1, <2>2, <2>3, <2>4 DEF Own
<1> QED
  BY <1>1, <1>2, <1>3

LEMMA OwnStep ==
    ASSUME ReadsTypeOK, Standing, Own, [ReadsNext]_readsVars
    PROVE  Own'
<1>1. CASE UNCHANGED readsVars
  BY <1>1 DEF readsVars, Own
<1>2. CASE StartUp \/ RefreshAll \/ TickRefresh \/ RefreshView \/ WriteFinished
  BY <1>2, OwnRefreshed
<1>3. CASE StartDetail
  BY <1>3 DEF StartDetail, Others, Shown, Own
<1>4. ASSUME NEW n \in Readers, ReaderWorks(n)
      PROVE  Own'
  <2>1. PICK rec \in {NoReader} \cup ReadRecords : Becomes(n, rec)
    BY <1>4, WorkFacts
  <2> QED
    BY <2>1 DEF Becomes, Own
<1>5. ASSUME NEW n \in Readers, Handled(n)
      PROVE  Own'
  BY <1>5, OwnHandled
<1>6. CASE Evaluated
  BY <1>6 DEF Evaluated, Own
<1>7. CASE Choosing
  BY <1>7, OwnSwitched
<1>8. CASE OpenReview \/ CloseReview \/ Accept \/ WriteReaches
  BY <1>8 DEF OpenReview, CloseReview, Accept, WriteReaches, Others, Shown, Own
<1>9. CASE LocalChanges
  BY <1>9 DEF LocalChanges, RefreshDeviceView, Own
<1> QED
  BY <1>1, <1>2, <1>3, <1>4, <1>5, <1>6, <1>7, <1>8, <1>9 DEF ReadsNext, Choosing

LEMMA OwnInit == ReadsInit => Own
<1> SUFFICES ASSUME ReadsInit
             PROVE  Own
  OBVIOUS
<1>1. \A r \in Resources : Unread[r].data = NoData
  BY NoDataType
<1>2. view = Composed(admin, local)
  BY <1>1, ReadsAssumption DEF ReadsInit, Composed, ViewSource, Aligned, Resources
<1>3. \A p \in Profiles : \A r \in Resources : saved[p][r].data.of = None
  BY <1>1 DEF ReadsInit, NoData
<1>4. admin = [profile |-> First, res |-> Unread] /\ health = None /\ evaluations = {}
  BY DEF ReadsInit
<1>5. \A r \in Resources : admin.res[r].data.of = None
  BY <1>1, <1>4 DEF NoData
<1> QED
  BY <1>2, <1>3, <1>4, <1>5 DEF Own

\* Whatever is under way for another profile, what is on screen is the active
\* one's (App::update_admin, switch_profile, refresh_device_view).
THEOREM OwnIsShown == ReadsSpec => []ShownIsOwn
<1>1. ReadsInit => ReadsTypeOK /\ Standing /\ Own
  BY InitTypes, OwnInit
<1>2. (ReadsTypeOK /\ Standing /\ Own) /\ [ReadsNext]_readsVars => (ReadsTypeOK /\ Standing /\ Own)'
  BY TypeStep, OwnStep
<1>3. Own => ShownIsOwn
  <2> SUFFICES ASSUME Own
               PROVE  view.source = "Composed" => view.local = view.admin.of
    BY DEF Own, ShownIsOwn
  <2>1. view = Composed(admin, local)
    BY DEF Own
  <2>2. ViewSource(admin, local) = "Composed" => local = admin.res["devices"].data.of
    BY DEF ViewSource, Aligned
  <2> QED
    BY <2>1, <2>2 DEF Composed
<1> QED
  BY <1>1, <1>2, <1>3, PTL DEF ReadsSpec

-----------------------------------------------------------------------------
(* What is shown as current includes one's own writes *)

\* No read, and no review, is of a generation yet to come.
Generations ==
    /\ \A n \in Readers : Reading(n) => readers[n].gen <= generation
    /\ review.gen <= generation

\* Only what the write under way is over can be ahead of what is acknowledged.
AckedIsServed ==
    \A p \in Profiles : \A r \in Resources :
        /\ acked[p][r] <= server[p][r]
        /\ acked[p][r] # server[p][r] => writing.profile = p /\ r \in writing.over

\* What the current reads have got includes every acknowledged write.
GotIsCurrent ==
    \A n \in Readers : \A r \in Resources :
        Reading(n) /\ readers[n].gen = generation /\ readers[n].got[r].state = "Ready"
            => readers[n].got[r].ver >= acked[readers[n].profile][r]

\* No confirmation is open while a write is under way.
OneAtATime == review # NoReview => writing = NoWrite

Current == Generations /\ AckedIsServed /\ GotIsCurrent /\ ReadYourWrites /\ OneAtATime

\* A task that begins has got nothing yet.
LEMMA SpawnedIsCurrent ==
    ASSUME ReadsTypeOK, Generations, GotIsCurrent, generation' \in Nat, NEW n \in Readers, NEW rec,
           readers' = [readers EXCEPT ![n] = rec], rec.gen <= generation',
           \A r \in Resources : rec.got[r].state = "none",
           generation' > generation \/ UNCHANGED <<generation, acked>>
    PROVE  /\ \A m \in Readers : Reading(m)' => readers'[m].gen <= generation'
           /\ GotIsCurrent'
<1>1. readers'[n] = rec /\ \A m \in Readers : m # n => readers'[m] = readers[m]
  BY DEF ReadsTypeOK
<1>2. \A m \in Readers : m # n /\ Reading(m)' => Reading(m) /\ readers[m].gen \in Nat
  BY <1>1, ReaderIs DEF Reading, ReadRecords
<1>3. generation \in Nat
  BY DEF ReadsTypeOK
<1>4. \A m \in Readers : Reading(m)' => readers'[m].gen <= generation'
  BY <1>1, <1>2, <1>3 DEF Generations
<1>5. ASSUME NEW m \in Readers, NEW r \in Resources, Reading(m)', readers'[m].gen = generation',
             readers'[m].got[r].state = "Ready"
      PROVE  readers'[m].got[r].ver >= acked'[readers'[m].profile][r]
  <2>1. m # n
    BY <1>1, <1>5
  <2>2. Reading(m) /\ readers'[m] = readers[m] /\ readers[m].gen <= generation
    BY <1>1, <1>2, <1>5, <2>1 DEF Generations
  <2>3. UNCHANGED <<generation, acked>>
    BY <1>2, <1>3, <1>5, <2>1, <2>2
  <2> QED
    BY <1>5, <2>2, <2>3 DEF GotIsCurrent
<1> QED
  BY <1>4, <1>5 DEF GotIsCurrent

\* Reads that begin leave nothing current that a write has changed.
LEMMA CurrentRefreshed ==
    ASSUME ReadsTypeOK, Standing, Current, StartUp \/ RefreshAll \/ TickRefresh \/ RefreshView \/ WriteFinished
    PROVE  Current'
<1>1. PICK rs \in SUBSET Resources, kind \in {"full", "part"} :
         Refreshes(rs, kind) /\ (UNCHANGED <<writing, acked>> \/ (WriteFinished /\ rs = writing.over))
  BY RefreshedTypes
<1>2. /\ Active /\ admin \in Administrations /\ admin.profile \in Profiles
      /\ generation \in Nat /\ generation + 1 \in Nat /\ review.gen \in Nat
  <2>1. Active
    BY RefreshedTypes
  <2>2. admin \in Administrations /\ generation \in Nat /\ review.gen \in Nat
    BY DEF ReadsTypeOK, Administrations
  <2> QED
    BY <2>1, <2>2 DEF Active, Administrations
<1>3. generation' \in Nat /\ generation' > generation /\ generation' = generation + 1
  BY <1>1, <1>2 DEF Refreshes, BeginReads
<1>4. BeginReads(admin, generation', rs, kind) /\ UNCHANGED <<review, server>>
  BY <1>1, <1>3 DEF Refreshes, Others
<1>5. /\ admin'.profile = admin.profile
      /\ \A r \in Resources : (r \in rs => admin'.res[r].state = "Loading") /\ (r \notin rs => admin'.res[r] = admin.res[r])
      /\ Spawned(kind, admin.profile, generation', rs)
  <2>1. rs \in SUBSET Resources /\ kind \in {"full", "part", "detail"} /\ generation' \in Nat
    BY <1>1, <1>3
  <2>2. admin \in Administrations /\ admin.profile \in Profiles
    BY <1>2
  <2> QED
    BY <1>4, <2>1, <2>2, BeginFacts, ZenonT(60)
<1>6. (\A m \in Readers : Reading(m)' => readers'[m].gen <= generation') /\ GotIsCurrent'
  <2> DEFINE rec == Reader(kind, admin.profile, generation', rs, generation')
  <2>1. PICK n \in Readers : readers' = [readers EXCEPT ![n] = rec]
    BY <1>5 DEF Spawned
  <2>2. rec.gen = generation' /\ \A r \in Resources : rec.got[r].state = "none"
    BY DEF Reader, Unasked
  <2>3. rec.gen <= generation' /\ generation' \in Nat /\ generation' > generation
    BY <1>3, <1>5, <2>2
  <2> HIDE DEF rec
  <2> QED
    BY <2>1, <2>2, <2>3, SpawnedIsCurrent DEF Current
<1>7. Generations'
  BY <1>2, <1>3, <1>4, <1>5, <1>6 DEF Current, Generations
<1>8. \/ UNCHANGED <<writing, acked>>
      \/ /\ writing' = NoWrite /\ rs = writing.over /\ writing.profile = admin.profile
         /\ acked' = [acked EXCEPT ![admin.profile] = server[admin.profile]]
  BY <1>1 DEF WriteFinished, Standing
<1>9. /\ \A p \in Profiles : \A r \in Resources : acked[p][r] \in Nat /\ server[p][r] \in Nat
      /\ acked \in [Profiles -> [Resources -> Nat]]
  BY DEF ReadsTypeOK
<1>10. AckedIsServed'
  <2>1. CASE UNCHANGED <<writing, acked>>
    BY <1>3, <1>4, <1>5, <2>1 DEF Current, AckedIsServed
  <2>2. CASE acked' = [acked EXCEPT ![admin.profile] = server[admin.profile]] /\ writing.profile = admin.profile
    <3>1. ASSUME NEW p \in Profiles, NEW r \in Resources
          PROVE  acked'[p][r] = server'[p][r]
      BY <1>2, <1>3, <1>4, <1>5, <1>9, <2>2 DEF Current, AckedIsServed
    <3> QED
      BY <1>3, <1>4, <1>5, <1>9, <3>1 DEF AckedIsServed
  <2> QED
    BY <1>8, <2>1, <2>2
<1>11. ReadYourWrites'
  <2> SUFFICES ASSUME NEW r \in Resources, admin'.res[r].state = "Ready"
               PROVE  admin'.res[r].data.ver >= acked'[admin'.profile][r]
    BY DEF ReadYourWrites
  <2>1. r \notin rs /\ admin'.res[r] = admin.res[r]
    BY <1>3, <1>4, <1>5
  <2>2. acked'[admin.profile][r] = acked[admin.profile][r]
    <3>1. CASE UNCHANGED acked
      BY <3>1
    <3>2. CASE acked' = [acked EXCEPT ![admin.profile] = server[admin.profile]] /\ rs = writing.over
      <4>1. acked[admin.profile][r] = server[admin.profile][r]
        BY <1>2, <2>1, <3>2 DEF Current, AckedIsServed
      <4> QED
        BY <1>2, <1>9, <3>2, <4>1
    <3> QED
      BY <1>8, <3>1, <3>2
  <2> QED
    BY <1>2, <1>3, <1>4, <1>5, <2>1, <2>2 DEF Current, ReadYourWrites
<1>12. OneAtATime'
  BY <1>4, <1>8 DEF Current, OneAtATime
<1> QED
  BY <1>6, <1>7, <1>10, <1>11, <1>12 DEF Current

\* A profile that becomes active is read anew.
LEMMA CurrentSwitched ==
    ASSUME ReadsTypeOK, Standing, Current, Choosing
    PROVE  Current'
<1>1. Kept /\ (Unswitched \/ \E p \in Profiles \cup {None} : ProfileIsSwitched(p))
  BY ChoosingFacts
<1>2. CASE Unswitched
  BY <1>1, <1>2 DEF Unswitched, Kept, Current, Generations, AckedIsServed, GotIsCurrent, ReadYourWrites, OneAtATime, Reading, Active
<1>3. ASSUME NEW p \in Profiles \cup {None}, ProfileIsSwitched(p)
      PROVE  Current'
  <2>1. /\ generation \in Nat /\ generation' \in Nat /\ generation' > generation
        /\ review' = review /\ review.gen \in Nat /\ UNCHANGED <<writing, server, acked>>
    BY <1>1, <1>3 DEF ProfileIsSwitched, Kept, ReadsTypeOK
  <2>2. (\A m \in Readers : Reading(m)' => readers'[m].gen <= generation') /\ GotIsCurrent'
    <3>1. CASE UNCHANGED readers
      <4>1. \A m \in Readers : Reading(m)' => Reading(m) /\ readers'[m] = readers[m] /\ readers[m].gen \in Nat
        BY <3>1, ReaderIs DEF Reading, ReadRecords
      <4>2. \A m \in Readers : Reading(m)' => readers'[m].gen < generation'
        BY <2>1, <4>1 DEF Current, Generations
      <4>3. \A m \in Readers : Reading(m)' => readers'[m].gen <= generation' /\ readers'[m].gen # generation'
        BY <2>1, <4>1, <4>2
      <4> QED
        BY <4>3 DEF GotIsCurrent
    <3>2. CASE p # None /\ Spawned("full", p, generation', Resources)
      <4>1. p \in Profiles
        BY <3>2
      <4> DEFINE rec == Reader("full", p, generation', Resources, generation')
      <4>2. PICK n \in Readers : readers' = [readers EXCEPT ![n] = rec]
        BY <3>2 DEF Spawned
      <4>3. rec.gen = generation' /\ \A r \in Resources : rec.got[r].state = "none"
        BY <2>1, <4>1, ReaderFacts
      <4>4. rec.gen <= generation'
        BY <2>1, <4>3
      <4> HIDE DEF rec
      <4> QED
        BY <2>1, <4>2, <4>3, <4>4, SpawnedIsCurrent DEF Current
    <3> QED
      BY <1>3, <3>1, <3>2 DEF ProfileIsSwitched
  <2>3. Generations'
    BY <2>1, <2>2 DEF Current, Generations
  <2>4. AckedIsServed'
    BY <2>1 DEF Current, AckedIsServed
  <2>5. ReadYourWrites'
    BY <1>3 DEF ProfileIsSwitched, ReadYourWrites, Active
  <2> QED
    BY <2>1, <2>2, <2>3, <2>4, <2>5 DEF Current, OneAtATime
<1> QED
  BY <1>1, <1>2, <1>3

\* A task gets what the server has, which is no older than what is acknowledged.
LEMMA CurrentWork ==
    ASSUME ReadsTypeOK, Current, NEW n \in Readers, ReaderWorks(n)
    PROVE  Current'
<1>1. PICK rec \in {NoReader} \cup ReadRecords :
              /\ Reading(n) /\ Becomes(n, rec)
              /\ rec # NoReader =>
                   /\ rec.profile = readers[n].profile /\ rec.gen = readers[n].gen
                   /\ \A r \in Resources :
                        \/ rec.got[r] = readers[n].got[r]
                        \/ rec.got[r].state # "Ready"
                        \/ rec.got[r].ver = server[rec.profile][r]
  BY WorkFacts
<1>2. readers'[n] = rec /\ \A m \in Readers : m # n => readers'[m] = readers[m]
  BY <1>1, PlacedFacts DEF Becomes
<1>3. UNCHANGED <<admin, generation, review, writing, server, acked>>
  BY <1>1 DEF Becomes
<1>4. Generations'
  BY <1>1, <1>2, <1>3 DEF Current, Generations, Reading
<1>5. AckedIsServed' /\ ReadYourWrites'
  BY <1>3 DEF Current, AckedIsServed, ReadYourWrites, Active
<1>6. ASSUME NEW m \in Readers, NEW r \in Resources, Reading(m)', readers'[m].gen = generation',
             readers'[m].got[r].state = "Ready"
      PROVE  readers'[m].got[r].ver >= acked'[readers'[m].profile][r]
  <2>1. CASE m # n
    BY <1>2, <1>3, <1>6, <2>1 DEF Current, GotIsCurrent, Reading
  <2>2. CASE m = n
    <3>1. rec # NoReader /\ readers'[m] = rec
      BY <1>2, <1>6, <2>2 DEF Reading
    <3>2. CASE rec.got[r] = readers[n].got[r]
      BY <1>1, <1>3, <1>6, <2>2, <3>1, <3>2 DEF Current, GotIsCurrent
    <3>3. CASE rec.got[r].ver = server[rec.profile][r]
      <4>1. rec.profile \in Profiles
        BY <1>1, <3>1 DEF ReadRecords
      <4>2. acked[rec.profile][r] <= server[rec.profile][r]
        BY <4>1 DEF Current, AckedIsServed
      <4>3. server[rec.profile][r] \in Nat /\ acked[rec.profile][r] \in Nat
        BY <4>1 DEF ReadsTypeOK
      <4> QED
        BY <1>3, <3>1, <3>3, <4>2, <4>3
    <3> QED
      BY <1>1, <1>6, <3>1, <3>2, <3>3
  <2> QED
    BY <2>1, <2>2
<1> QED
  BY <1>3, <1>4, <1>5, <1>6 DEF Current, GotIsCurrent, OneAtATime

\* What an answer that counts brings includes every acknowledged write.
LEMMA CurrentHandled ==
    ASSUME ReadsTypeOK, Current, NEW n \in Readers, Handled(n)
    PROVE  Current'
<1>1. /\ Reading(n) /\ readers' = [readers EXCEPT ![n] = NoReader]
      /\ UNCHANGED <<generation, review, writing, acked, server>>
      /\ Renewed(n) \/ UNCHANGED admin
  BY HandledFacts DEF Others
<1>2. readers'[n] = NoReader /\ \A m \in Readers : m # n => readers'[m] = readers[m]
  BY <1>1, PlacedFacts
<1>3. Generations' /\ GotIsCurrent'
  BY <1>1, <1>2 DEF Current, Generations, GotIsCurrent, Reading
<1>4. AckedIsServed'
  BY <1>1 DEF Current, AckedIsServed
<1>5. ReadYourWrites'
  <2>1. CASE UNCHANGED admin
    BY <1>1, <2>1 DEF Current, ReadYourWrites, Active
  <2>2. CASE Renewed(n)
    <3>1. admin'.profile = admin.profile /\ readers[n].profile = admin.profile /\ readers[n].gen = generation /\ Active
      BY <2>2 DEF Renewed, Wanted
    <3>2. ASSUME NEW r \in Resources, admin'.res[r].state = "Ready"
          PROVE  admin'.res[r].data.ver >= acked[admin.profile][r]
      <4>1. \/ admin'.res[r] = admin.res[r]
            \/ /\ readers[n].got[r].state = "Ready"
               /\ admin'.res[r].data = [of |-> readers[n].profile, ver |-> readers[n].got[r].ver]
        BY <2>2, <3>2 DEF Renewed
      <4>2. CASE admin'.res[r] = admin.res[r]
        BY <3>1, <3>2, <4>2 DEF Current, ReadYourWrites
      <4>3. CASE /\ readers[n].got[r].state = "Ready"
                 /\ admin'.res[r].data = [of |-> readers[n].profile, ver |-> readers[n].got[r].ver]
        <5>1. readers[n].got[r].ver >= acked[readers[n].profile][r]
          BY <1>1, <3>1, <4>3 DEF Current, GotIsCurrent
        <5>2. admin'.res[r].data.ver = readers[n].got[r].ver
          BY <4>3
        <5> QED
          BY <3>1, <5>1, <5>2
      <4> QED
        BY <4>1, <4>2, <4>3
    <3> QED
      BY <1>1, <3>1, <3>2 DEF ReadYourWrites
  <2> QED
    BY <1>1, <2>1, <2>2
<1> QED
  BY <1>1, <1>3, <1>4, <1>5 DEF Current, OneAtATime

\* Of a write under way, only the resources it is over get ahead.
LEMMA CurrentWrites ==
    ASSUME ReadsTypeOK, Standing, Current, OpenReview \/ CloseReview \/ Accept \/ WriteReaches
    PROVE  Current'
<1>1. UNCHANGED <<admin, generation, readers, acked>>
  BY DEF OpenReview, CloseReview, Accept, WriteReaches
<1>2. GotIsCurrent' /\ ReadYourWrites'
  BY <1>1 DEF Current, GotIsCurrent, ReadYourWrites, Reading, Active
<1>3. review'.gen <= generation
  <2>1. review' = review \/ review' = NoReview \/ review'.gen = generation
    BY DEF OpenReview, CloseReview, Accept, WriteReaches
  <2>2. generation \in Nat /\ NoReview.gen = 0
    BY DEF ReadsTypeOK, NoReview
  <2> QED
    BY <2>1, <2>2 DEF Current, Generations
<1>4. Generations'
  BY <1>1, <1>3 DEF Current, Generations, Reading
<1>5. AckedIsServed'
  <2>1. CASE OpenReview \/ CloseReview
    BY <2>1 DEF OpenReview, CloseReview, Others, Current, AckedIsServed
  <2>2. CASE Accept
    <3>1. writing = NoWrite
      BY <2>2 DEF Accept, ReviewIsCurrent, Current, OneAtATime
    <3>2. \A p \in Profiles : \A r \in Resources : acked[p][r] = server[p][r]
      BY <3>1 DEF Current, AckedIsServed, NoWrite
    <3>3. UNCHANGED <<acked, server>>
      BY <2>2 DEF Accept, Others
    <3> QED
      BY <3>2, <3>3 DEF Current, AckedIsServed
  <2>3. CASE WriteReaches
    <3>1. /\ writing.profile \in Profiles /\ writing.over \subseteq Resources
          /\ \A p \in Profiles : \A r \in Resources : acked[p][r] \in Nat /\ server[p][r] \in Nat
      BY <2>3 DEF WriteReaches, Standing, Active, ReadsTypeOK
    <3>2. writing'.profile = writing.profile /\ writing'.over = writing.over /\ UNCHANGED acked
      <4>1. writing' = [writing EXCEPT !.sent = TRUE]
        BY <2>3 DEF WriteReaches
      <4>2. writing \in Writing
        BY DEF ReadsTypeOK, Writing
      <4> QED
        BY <1>1, <4>1, <4>2 DEF Writing
    <3>3. ASSUME NEW p \in Profiles, NEW r \in Resources
          PROVE  server'[p][r] = IF p = writing.profile /\ r \in writing.over THEN server[p][r] + 1 ELSE server[p][r]
      <4>1. server' = [server EXCEPT ![writing.profile] =
                      [x \in Resources |-> server[writing.profile][x] + (IF x \in writing.over THEN 1 ELSE 0)]]
        BY <2>3 DEF WriteReaches
      <4>2. server \in [Profiles -> [Resources -> Nat]]
        BY DEF ReadsTypeOK
      <4>3. CASE p # writing.profile
        BY <4>1, <4>2, <4>3
      <4>4. CASE p = writing.profile
        <5>1. server'[p][r] = server[p][r] + (IF r \in writing.over THEN 1 ELSE 0)
          BY <4>1, <4>2, <4>4
        <5> QED
          BY <3>1, <4>4, <5>1
      <4> QED
        BY <4>3, <4>4
    <3>4. ASSUME NEW p \in Profiles, NEW r \in Resources
          PROVE  /\ acked'[p][r] <= server'[p][r]
                 /\ acked'[p][r] # server'[p][r] => writing'.profile = p /\ r \in writing'.over
      BY <3>1, <3>2, <3>3, <3>4 DEF Current, AckedIsServed
    <3> QED
      BY <3>4 DEF AckedIsServed
  <2> QED
    BY <2>1, <2>2, <2>3
<1>6. OneAtATime'
  <2>1. CASE Accept \/ CloseReview
    BY <2>1 DEF Accept, CloseReview, OneAtATime
  <2>2. CASE OpenReview
    BY <2>2 DEF OpenReview, OneAtATime
  <2>3. CASE WriteReaches
    BY <2>3 DEF WriteReaches, Current, OneAtATime
  <2> QED
    BY <2>1, <2>2, <2>3
<1> QED
  BY <1>2, <1>4, <1>5, <1>6 DEF Current

LEMMA CurrentStep ==
    ASSUME ReadsTypeOK, Standing, Current, [ReadsNext]_readsVars
    PROVE  Current'
<1>1. CASE UNCHANGED readsVars
  BY <1>1 DEF readsVars, Current, Generations, AckedIsServed, GotIsCurrent, ReadYourWrites, OneAtATime, Reading, Active
<1>2. CASE StartUp \/ RefreshAll \/ TickRefresh \/ RefreshView \/ WriteFinished
  BY <1>2, CurrentRefreshed
<1>3. CASE StartDetail
  <2> DEFINE rec == Reader("detail", admin.profile, generation, {"devices"}, token)
  <2>1. PICK n \in Readers : readers' = [readers EXCEPT ![n] = rec]
    BY <1>3, DetailStarts
  <2>2. rec.gen = generation /\ \A r \in Resources : rec.got[r].state = "none"
    BY DEF Reader, Unasked
  <2>3. UNCHANGED <<admin, generation, review, writing, server, acked>>
    BY <1>3 DEF StartDetail, Others
  <2>4. generation' \in Nat /\ rec.gen <= generation'
    BY <2>2, <2>3 DEF ReadsTypeOK
  <2> HIDE DEF rec
  <2>5. (\A m \in Readers : Reading(m)' => readers'[m].gen <= generation') /\ GotIsCurrent'
    BY <2>1, <2>2, <2>3, <2>4, SpawnedIsCurrent DEF Current
  <2> QED
    BY <2>3, <2>5 DEF Current, Generations, AckedIsServed, ReadYourWrites, OneAtATime, Active
<1>4. ASSUME NEW n \in Readers, ReaderWorks(n)
      PROVE  Current'
  BY <1>4, CurrentWork
<1>5. ASSUME NEW n \in Readers, Handled(n)
      PROVE  Current'
  BY <1>5, CurrentHandled
<1>6. CASE Evaluated \/ LocalChanges
  BY <1>6 DEF Evaluated, LocalChanges, Current, Generations, AckedIsServed, GotIsCurrent, ReadYourWrites, OneAtATime,
              Reading, Active
<1>7. CASE Choosing
  BY <1>7, CurrentSwitched
<1>8. CASE OpenReview \/ CloseReview \/ Accept \/ WriteReaches
  BY <1>8, CurrentWrites
<1> QED
  BY <1>1, <1>2, <1>3, <1>4, <1>5, <1>6, <1>7, <1>8 DEF ReadsNext, Choosing

LEMMA CurrentInit == ReadsInit => Current
<1> SUFFICES ASSUME ReadsInit
             PROVE  Current
  OBVIOUS
<1>1. \A n \in Readers : ~Reading(n)
  BY DEF ReadsInit, Reading
<1>2. \A r \in Resources : admin.res[r].state = "Idle"
  BY DEF ReadsInit, Unread
<1>3. generation = 0 /\ review = NoReview /\ NoReview.gen = 0
  BY DEF ReadsInit, NoReview
<1>4. \A p \in Profiles : \A r \in Resources : acked[p][r] = 0 /\ server[p][r] = 0
  BY DEF ReadsInit
<1> QED
  BY <1>1, <1>2, <1>3, <1>4 DEF Current, Generations, AckedIsServed, GotIsCurrent, ReadYourWrites, OneAtATime

\* What is shown as current includes every change of one's own that has been
\* reported done (MutationFinished and the generations of App::update_admin).
THEOREM WritesAreRead == ReadsSpec => []ReadYourWrites
<1>1. ReadsInit => ReadsTypeOK /\ Standing /\ Current
  BY InitTypes, CurrentInit
<1>2. (ReadsTypeOK /\ Standing /\ Current) /\ [ReadsNext]_readsVars => (ReadsTypeOK /\ Standing /\ Current)'
  BY TypeStep, CurrentStep
<1>3. Current => ReadYourWrites
  BY DEF Current
<1> QED
  BY <1>1, <1>2, <1>3, PTL DEF ReadsSpec

-----------------------------------------------------------------------------
(* What loads is read, and what is locked is held *)

\* What loads is being read, or will be read again.
Pursued == Active /\ (\E r \in Resources : admin.res[r].state = "Loading") => inFlight \/ due

\* The detail that holds a lock has not been cancelled.
Holder(n, p) ==
    Reading(n) /\ readers[n].kind = "detail" /\ readers[n].profile = p /\ ~Cancelled(n)

LocksAreHeld == \A p \in readLocks : \E n \in Readers : Holder(n, p)

LEMMA PursuedStep ==
    ASSUME ReadsTypeOK, Standing, Pursued, [ReadsNext]_readsVars
    PROVE  Pursued'
<1>1. CASE UNCHANGED <<admin, inFlight, due>>
  BY <1>1 DEF Pursued, Active
<1>2. CASE StartUp \/ RefreshAll \/ TickRefresh \/ RefreshView \/ WriteFinished
  <2>1. inFlight' = TRUE
    BY <1>2, RefreshedTypes DEF Refreshes, BeginReads
  <2> QED
    BY <2>1 DEF Pursued
<1>3. ASSUME NEW n \in Readers, Handled(n)
      PROVE  Pursued'
  <2>1. admin'.profile = admin.profile /\ Settled(n)
    BY <1>3, HandledFacts DEF Renewed
  <2> QED
    BY <2>1 DEF Settled, Pursued, Active
<1>4. CASE Choosing
  <2>1. CASE \E p \in Profiles \cup {None} : ProfileIsSwitched(p)
    BY <2>1 DEF ProfileIsSwitched, Pursued, Active
  <2>2. CASE Unswitched
    BY <1>1, <2>2 DEF Unswitched
  <2> QED
    BY <1>4, <2>1, <2>2, ChoosingFacts
<1>5. CASE \/ UNCHANGED readsVars \/ StartDetail \/ Evaluated \/ LocalChanges
           \/ OpenReview \/ CloseReview \/ Accept \/ WriteReaches
           \/ \E n \in Readers : ReaderWorks(n)
  <2>1. UNCHANGED <<admin, inFlight, due>>
    BY <1>5 DEF readsVars, StartDetail, Evaluated, LocalChanges, OpenReview, CloseReview, Accept, WriteReaches,
                ReaderWorks, TakeToken, ReadOne, NoticeCancelled, Becomes
  <2> QED
    BY <1>1, <2>1
<1> QED
  BY <1>2, <1>3, <1>4, <1>5 DEF ReadsNext, Choosing

\* A lock stays with the task that holds it.
LEMMA StillHeld ==
    ASSUME ReadsTypeOK, UNCHANGED token, NEW n \in Readers, NEW p, Holder(n, p), readers'[n] = readers[n]
    PROVE  Holder(n, p)'
BY DEF Holder, Reading, Cancelled

LEMMA HeldStep ==
    ASSUME ReadsTypeOK, Standing, LocksAreHeld, [ReadsNext]_readsVars
    PROVE  LocksAreHeld'
<1>1. CASE UNCHANGED <<readers, readLocks, token>>
  BY <1>1 DEF LocksAreHeld, Holder, Reading, Cancelled
<1>2. CASE StartUp \/ RefreshAll \/ TickRefresh \/ RefreshView \/ WriteFinished
  <2>1. readLocks' = {}
    BY <1>2, RefreshedTypes DEF Refreshes, BeginReads, UnlockAll
  <2> QED
    BY <2>1 DEF LocksAreHeld
<1>3. CASE StartDetail
  <2> DEFINE rec == Reader("detail", admin.profile, generation, {"devices"}, token)
  <2>1. PICK n \in Readers : ~Reading(n) /\ readers' = [readers EXCEPT ![n] = rec] /\ rec \in ReadRecords
    BY <1>3, DetailStarts
  <2>2. readers'[n] = rec /\ \A m \in Readers : m # n => readers'[m] = readers[m]
    BY <2>1, PlacedFacts
  <2>3. rec.kind = "detail" /\ rec.profile = admin.profile /\ rec.token = token
    BY DEF Reader
  <2>4. rec # NoReader
    BY <2>1, ReaderIs
  <2>5. token' = token /\ readLocks' = readLocks \cup {admin.profile}
    BY <1>3 DEF StartDetail
  <2> HIDE DEF rec
  <2> SUFFICES ASSUME NEW p \in readLocks'
               PROVE  \E m \in Readers : Holder(m, p)'
    BY DEF LocksAreHeld
  <2>6. CASE p = admin.profile
    BY <2>2, <2>3, <2>4, <2>5, <2>6 DEF Holder, Reading, Cancelled
  <2>7. CASE p \in readLocks
    <3>1. PICK m \in Readers : Holder(m, p)
      BY <2>7 DEF LocksAreHeld
    <3>2. m # n
      BY <2>1, <3>1 DEF Holder
    <3> QED
      BY <2>2, <2>5, <3>1, <3>2, StillHeld
  <2> QED
    BY <2>5, <2>6, <2>7
<1>4. ASSUME NEW n \in Readers, ReaderWorks(n)
      PROVE  LocksAreHeld'
  <2>1. PICK rec \in {NoReader} \cup ReadRecords :
              /\ Becomes(n, rec)
              /\ rec = NoReader => Cancelled(n)
              /\ rec # NoReader => /\ rec.kind = readers[n].kind /\ rec.profile = readers[n].profile
                                   /\ rec.token = readers[n].token
    BY <1>4, WorkFacts
  <2>2. /\ readers'[n] = rec /\ \A m \in Readers : m # n => readers'[m] = readers[m]
        /\ token' = token /\ readLocks' = readLocks
    BY <2>1, PlacedFacts DEF Becomes
  <2> SUFFICES ASSUME NEW p \in readLocks
               PROVE  \E m \in Readers : Holder(m, p)'
    BY <2>2 DEF LocksAreHeld
  <2>3. PICK m \in Readers : Holder(m, p)
    BY DEF LocksAreHeld
  <2>4. CASE m # n
    BY <2>2, <2>3, <2>4, StillHeld
  <2>5. CASE m = n
    <3>1. rec # NoReader
      BY <2>1, <2>3, <2>5 DEF Holder
    <3>2. Holder(n, p)'
      BY <2>1, <2>2, <2>3, <2>5, <3>1 DEF Holder, Reading, Cancelled
    <3> QED
      BY <3>2
  <2> QED
    BY <2>4, <2>5
<1>5. ASSUME NEW n \in Readers, Handled(n)
      PROVE  LocksAreHeld'
  <2>1. readers' = [readers EXCEPT ![n] = NoReader] /\ token' = token /\ Settled(n)
    BY <1>5, HandledFacts
  <2>2. \A m \in Readers : m # n => readers'[m] = readers[m]
    BY <2>1, PlacedFacts
  <2> SUFFICES ASSUME NEW p \in readLocks'
               PROVE  \E m \in Readers : Holder(m, p)'
    BY DEF LocksAreHeld
  <2>3. p \in readLocks /\ (readers[n].kind = "detail" => readers[n].profile # p)
    BY <2>1 DEF Settled, ReleaseReadLock
  <2>4. PICK m \in Readers : Holder(m, p)
    BY <2>3 DEF LocksAreHeld
  <2>5. m # n
    BY <2>3, <2>4 DEF Holder
  <2> QED
    BY <2>1, <2>2, <2>4, <2>5, StillHeld
<1>6. CASE Choosing
  <2>1. CASE \E p \in Profiles \cup {None} : ProfileIsSwitched(p)
    BY <2>1 DEF ProfileIsSwitched, LocksAreHeld
  <2>2. CASE Unswitched
    BY <1>1, <2>2 DEF Unswitched
  <2> QED
    BY <1>6, <2>1, <2>2, ChoosingFacts
<1>7. CASE \/ UNCHANGED readsVars \/ Evaluated \/ LocalChanges
           \/ OpenReview \/ CloseReview \/ Accept \/ WriteReaches
  <2>1. UNCHANGED <<readers, readLocks, token>>
    BY <1>7 DEF readsVars, Evaluated, LocalChanges, OpenReview, CloseReview, Accept, WriteReaches
  <2> QED
    BY <1>1, <2>1
<1> QED
  BY <1>2, <1>3, <1>4, <1>5, <1>6, <1>7 DEF ReadsNext, Choosing

\* Nothing is loading that nobody reads or will read again, and a device locked
\* for a read has a read under way (App::start_admin_refresh, admin_read_locks).
THEOREM LoadingIsPursued == ReadsSpec => []ReadsArePursued
<1> DEFINE Inv == ReadsTypeOK /\ Standing /\ Pursued /\ LocksAreHeld
<1>1. ReadsInit => Inv
  <2> SUFFICES ASSUME ReadsInit
               PROVE  Pursued /\ LocksAreHeld
    BY InitTypes
  <2>1. \A r \in Resources : admin.res[r].state = "Idle"
    BY DEF ReadsInit, Unread
  <2> QED
    BY <2>1 DEF ReadsInit, Pursued, LocksAreHeld
<1>2. Inv /\ [ReadsNext]_readsVars => Inv'
  BY TypeStep, PursuedStep, HeldStep
<1>3. Inv => ReadsArePursued
  BY DEF Pursued, LocksAreHeld, Holder, ReadsArePursued
<1> QED
  BY <1>1, <1>2, <1>3, PTL DEF ReadsSpec

-----------------------------------------------------------------------------
(* What is decided holds for what it was decided on *)

\* The probe under way is of the profile chosen last, and a confirmation of the
\* current generation is on the active profile's data as they were reviewed.
Decided ==
    /\ probe # None => chosen = probe
    /\ review # NoReview /\ review.gen = generation =>
          /\ review.profile = admin.profile /\ Active
          /\ review.acked = acked[review.profile]["devices"]

LEMMA DecidedStep ==
    ASSUME ReadsTypeOK, Standing, Current, Decided, [ReadsNext]_readsVars
    PROVE  Decided'
<1>1. CASE UNCHANGED <<admin, generation, probe, chosen, acked>> /\ (review' = NoReview \/ UNCHANGED review)
  BY <1>1 DEF Decided, Active
<1>2. generation \in Nat /\ review.gen \in Nat /\ review.gen <= generation
  BY DEF ReadsTypeOK, Current, Generations
<1>3. CASE StartUp \/ RefreshAll \/ TickRefresh \/ RefreshView \/ WriteFinished
  <2>1. generation' = generation + 1 /\ UNCHANGED <<review, probe, chosen>>
    BY <1>3, RefreshedTypes DEF Refreshes, BeginReads, Others
  <2>2. review'.gen # generation'
    BY <1>2, <2>1
  <2> QED
    BY <2>1, <2>2 DEF Decided
<1>4. ASSUME NEW n \in Readers, Handled(n)
      PROVE  Decided'
  <2>1. admin'.profile = admin.profile /\ UNCHANGED <<generation, review, acked, probe, chosen>>
    BY <1>4, HandledFacts DEF Renewed, Others
  <2> QED
    BY <2>1 DEF Decided, Active
<1>5. CASE Choosing
  <2>1. /\ UNCHANGED <<review, acked>>
        /\ probe' = None \/ (probe' = probe /\ chosen' = chosen) \/ probe' = chosen'
        /\ Unswitched \/ \E p \in Profiles \cup {None} : ProfileIsSwitched(p)
    BY <1>5, ChoosingFacts DEF Kept
  <2>2. probe' # None => chosen' = probe'
    BY <2>1 DEF Decided
  <2>3. CASE Unswitched
    BY <2>1, <2>2, <2>3 DEF Unswitched, Decided, Active
  <2>4. CASE \E p \in Profiles \cup {None} : ProfileIsSwitched(p)
    <3>1. generation' > generation /\ generation' \in Nat
      BY <2>4 DEF ProfileIsSwitched
    <3>2. review'.gen # generation'
      BY <1>2, <2>1, <3>1
    <3> QED
      BY <2>2, <3>2 DEF Decided
  <2> QED
    BY <2>1, <2>3, <2>4
<1>6. CASE OpenReview
  <2>1. /\ UNCHANGED <<admin, generation, acked, probe, chosen>> /\ Active
        /\ review' = [gen |-> generation, profile |-> admin.profile, acked |-> acked[admin.profile]["devices"]]
    BY <1>6 DEF OpenReview, Others
  <2> QED
    BY <2>1 DEF Decided, Active
<1>7. CASE \/ UNCHANGED readsVars \/ StartDetail \/ Evaluated \/ LocalChanges
           \/ CloseReview \/ Accept \/ WriteReaches
           \/ \E n \in Readers : ReaderWorks(n)
  <2>1. UNCHANGED <<admin, generation, probe, chosen, acked>> /\ (review' = NoReview \/ UNCHANGED review)
    BY <1>7, ZenonT(60) DEF readsVars, StartDetail, Evaluated, LocalChanges, CloseReview, Accept, WriteReaches, Others,
                ReaderWorks, TakeToken, ReadOne, NoticeCancelled, Becomes
  <2> QED
    BY <1>1, <2>1
<1> QED
  BY <1>3, <1>4, <1>5, <1>6, <1>7 DEF ReadsNext, Choosing

\* The active profile only changes for one that was probed, or for none.
LEMMA OnlyChoosing ==
    ASSUME ReadsTypeOK, Standing, [ReadsNext]_readsVars, admin'.profile # admin.profile
    PROVE  Choosing
<1>1. CASE StartUp \/ RefreshAll \/ TickRefresh \/ RefreshView \/ WriteFinished
  <2>1. PICK rs \in SUBSET Resources, kind \in {"full", "part"} : Refreshes(rs, kind)
    BY <1>1, RefreshedTypes
  <2>2. admin'.profile = admin.profile
    BY <2>1 DEF Refreshes, BeginReads, ReadsTypeOK
  <2> QED
    BY <2>2
<1>2. ASSUME NEW n \in Readers, Handled(n)
      PROVE  FALSE
  BY <1>2, HandledFacts DEF Renewed
<1>3. CASE \/ UNCHANGED readsVars \/ StartDetail \/ Evaluated \/ LocalChanges
           \/ OpenReview \/ CloseReview \/ Accept \/ WriteReaches
           \/ \E n \in Readers : ReaderWorks(n)
  BY <1>3 DEF readsVars, StartDetail, Evaluated, LocalChanges, OpenReview, CloseReview, Accept, WriteReaches,
              ReaderWorks, TakeToken, ReadOne, NoticeCancelled, Becomes
<1> QED
  BY <1>1, <1>2, <1>3 DEF ReadsNext, Choosing

\* A write begins only where a confirmation is accepted.
LEMMA OnlyAccept ==
    ASSUME ReadsTypeOK, Standing, [ReadsNext]_readsVars, writing = NoWrite, writing' # NoWrite
    PROVE  Accept
<1>1. CASE StartUp \/ RefreshAll \/ TickRefresh \/ RefreshView \/ StartDetail
  BY <1>1 DEF StartUp, RefreshAll, TickRefresh, RefreshView, StartDetail
<1>2. CASE WriteFinished \/ WriteReaches
  BY <1>2 DEF WriteFinished, WriteReaches
<1>3. ASSUME NEW n \in Readers, Handled(n)
      PROVE  FALSE
  BY <1>3, HandledFacts
<1>4. CASE Choosing
  BY <1>4, ChoosingFacts DEF Kept
<1>5. CASE \/ UNCHANGED readsVars \/ Evaluated \/ LocalChanges \/ OpenReview \/ CloseReview
           \/ \E n \in Readers : ReaderWorks(n)
  BY <1>5 DEF readsVars, Evaluated, LocalChanges, OpenReview, CloseReview,
              ReaderWorks, TakeToken, ReadOne, NoticeCancelled, Becomes
<1> QED
  BY <1>1, <1>2, <1>3, <1>4, <1>5 DEF ReadsNext, Choosing

\* Only the profile chosen last becomes the active one, and a change is accepted
\* only on the profile, and the data, it was reviewed on (finish_profile_switch,
\* accept_confirmation).
THEOREM DecisionsHold == ReadsSpec => ChoicesHold
<1> DEFINE Inv == ReadsTypeOK /\ Standing /\ Current /\ Decided
           Step == /\ admin'.profile \notin {admin.profile, None} => admin'.profile = chosen
                   /\ writing = NoWrite /\ writing' # NoWrite =>
                         /\ review.profile = writing'.profile
                         /\ review.acked = acked[writing'.profile]["devices"]
<1>1. ReadsInit => Inv
  <2>1. ReadsInit => Decided
    BY DEF ReadsInit, Decided
  <2> QED
    BY <2>1, InitTypes, CurrentInit
<1>2. Inv /\ [ReadsNext]_readsVars => Inv'
  BY TypeStep, CurrentStep, DecidedStep
<1>3. Inv /\ [ReadsNext]_readsVars => [Step]_readsVars
  <2> SUFFICES ASSUME Inv, [ReadsNext]_readsVars
               PROVE  Step
    OBVIOUS
  <2>1. ASSUME admin'.profile \notin {admin.profile, None}
        PROVE  admin'.profile = chosen
    <3>1. Choosing
      BY <2>1, OnlyChoosing
    <3>2. PICK p \in Profiles : ProfileIsSwitched(p) /\ probe = p
      BY <2>1, <3>1, ChoosingFacts DEF Unswitched, ProfileIsSwitched
    <3> QED
      BY <2>1, <3>2 DEF ProfileIsSwitched, Decided
  <2>2. ASSUME writing = NoWrite, writing' # NoWrite
        PROVE  /\ review.profile = writing'.profile
               /\ review.acked = acked[writing'.profile]["devices"]
    <3>1. Accept
      BY <2>2, OnlyAccept
    <3>2. writing'.profile = admin.profile /\ review # NoReview /\ review.gen = generation
      BY <3>1 DEF Accept, ReviewIsCurrent
    <3> QED
      BY <3>2 DEF Decided
  <2> QED
    BY <2>1, <2>2
<1> QED
  BY <1>1, <1>2, <1>3, PTL DEF ReadsSpec, ChoicesHold

-----------------------------------------------------------------------------
(* Secrets *)

Working(t) == change[t] # NoChange /\ change[t].step # "ended"

\* Each kind of change has one worker at most that is awaited, and no other.
WorkersAreAwaited ==
    /\ \A t \in Errands : Working(t) /\ change[t].kind = "key" => keyPending = t
    /\ \A t \in Errands : Working(t) /\ change[t].kind \in Operations => opPending = t
    /\ keyPending # Nil => Working(keyPending) /\ change[keyPending].kind = "key"
    /\ opPending # Nil => Working(opPending) /\ change[opPending].kind \in Operations

\* One secret at a time is asked for, on its way or shown.
OneSecret ==
    /\ keyPending # Nil => secret = Nil /\ (opPending # Nil => ~GivesSecret(change[opPending].kind))
    /\ opPending # Nil /\ GivesSecret(change[opPending].kind) => secret = Nil
    /\ Shows(dialogs, "key") => keyPending = Nil /\ opPending = Nil /\ secret = Nil

\* A change is reviewed at the bottom of the stack; answers open above it.
StackFits ==
    /\ \A i \in 1..Len(dialogs) : dialogs[i].kind \in Operations \cup {"key"} => i = 1
    /\ \A i, j \in 1..Len(dialogs) : dialogs[i].kind = "secret" /\ dialogs[j].kind = "secret" => i = j
    /\ secret # Nil <=> Shows(dialogs, "secret")

SecretsOnTheirWay ==
    \A t \in Errands : change[t] # NoChange /\ change[t].issued =>
        GivesSecret(change[t].kind) /\ (Working(t) \/ t = secret \/ t \in closed)

\* What is held has a worker or a dialog that will let it go.
HeldIsLetGo ==
    /\ revokePending # Nil =>
          \/ \E t \in Errands : Working(t) /\ change[t].kind \in {"detail", "revoke"} /\ change[t].on = revokePending
          \/ \E i \in 1..Len(dialogs) : dialogs[i].kind = "revoke" /\ dialogs[i].on = revokePending
    /\ keyRequest => Shows(dialogs, "key")

Answered == WorkersAreAwaited /\ OneSecret /\ StackFits /\ SecretsOnTheirWay /\ HeldIsLetGo

\* A result is so of change c.
SoOf(c, result) ==
    /\ result \in {"Verified", "Unverified", "Created"} =>
          /\ GivesSecret(c.kind) => c.issued
          /\ c.kind = "edit" => setting
          /\ c.kind = "revoke" => c.on \notin existing
          /\ c.kind \in {"test", "detail"} => c.reached
    /\ result = "Failed" /\ c.kind # "key" /\ c.sent # "unread" => ~c.reached

\* What a worker knows of its change, and will say or has said, is so.
Honest(c) ==
    /\ SoOf(c, c.result) /\ SoOf(c, c.told)
    /\ c.kind = "detail" => c.sent = "no" /\ c.result \in {"none", "there", "gone", "unread"} /\ c.told \in {"none", "nothing"}
    /\ c.step = "write" => c.sent = "no" /\ ~c.reached /\ ~c.issued
    /\ c.step # "ended" => c.told = "none"
    /\ c.sent = "accepted" =>
          /\ c.reached
          /\ GivesSecret(c.kind) => c.issued
          /\ c.kind = "edit" => setting
          /\ c.kind = "revoke" => c.on \notin existing
    /\ c.step = "verify" =>
          c.sent = "accepted" \/ (c.sent = "lost" /\ c.kind \in {"create", "edit", "revoke"})

WorkersAreHonest == \A t \in Errands : change[t] # NoChange => Honest(change[t])

SecretsInv == SecretsTypeOK /\ Answered /\ WorkersAreHonest

LEMMA NoneIsNoChange ==
    /\ \A c \in SecretChanges : c # NoChange
    /\ \A o \in Operations : o \notin {"key", "revoke", "detail", "secret"}
<1>1. NoChange.kind = "none"
  BY DEF NoChange
<1>2. \A c \in SecretChanges : c.kind # "none"
  BY DEF SecretChanges, Operations
<1> QED
  BY <1>1, <1>2 DEF Operations

LEMMA ChangesAre ==
    ASSUME SecretsTypeOK, NEW t \in Errands, change[t] # NoChange
    PROVE  change[t] \in SecretChanges
BY DEF SecretsTypeOK

LEMMA PushedStack ==
    ASSUME NEW ds \in Seq(SecretDialogs), NEW d \in SecretDialogs
    PROVE  /\ Append(ds, d) \in Seq(SecretDialogs) /\ Len(ds) \in Nat /\ Len(Append(ds, d)) = Len(ds) + 1
           /\ \A i \in 1..Len(ds) : Append(ds, d)[i] = ds[i]
           /\ Append(ds, d)[Len(ds) + 1] = d
           /\ \A k : Shows(Append(ds, d), k) <=> Shows(ds, k) \/ d.kind = k
<1>1. /\ Append(ds, d) \in Seq(SecretDialogs) /\ Len(ds) \in Nat /\ Len(Append(ds, d)) = Len(ds) + 1
      /\ \A i \in 1..Len(ds) : Append(ds, d)[i] = ds[i]
      /\ Append(ds, d)[Len(ds) + 1] = d
      /\ DOMAIN ds = 1..Len(ds) /\ DOMAIN Append(ds, d) = 1..Len(ds) + 1
  OBVIOUS
<1>2. \A i \in DOMAIN Append(ds, d) : i \in DOMAIN ds \/ i = Len(ds) + 1
  BY <1>1
<1>3. Len(ds) + 1 \in DOMAIN Append(ds, d) /\ \A i \in DOMAIN ds : i \in DOMAIN Append(ds, d)
  BY <1>1
<1> DEFINE es == Append(ds, d)
<1>4. /\ \A i \in DOMAIN es : i \in DOMAIN ds \/ i = Len(ds) + 1
      /\ Len(ds) + 1 \in DOMAIN es /\ es[Len(ds) + 1] = d
      /\ \A i \in DOMAIN ds : i \in DOMAIN es /\ es[i] = ds[i]
  BY <1>1, <1>2, <1>3
<1> HIDE DEF es
<1>5. \A k : Shows(es, k) <=> Shows(ds, k) \/ d.kind = k
  BY <1>4 DEF Shows
<1> QED
  BY <1>1, <1>5 DEF es

LEMMA PoppedStack ==
    ASSUME dialogs \in Seq(SecretDialogs), dialogs # <<>>
    PROVE  /\ Popped \in Seq(SecretDialogs) /\ Len(dialogs) \in Nat \ {0} /\ Len(Popped) = Len(dialogs) - 1
           /\ \A i \in 1..Len(Popped) : Popped[i] = dialogs[i] /\ i \in 1..Len(dialogs) /\ i # Len(dialogs)
           /\ \A i \in 1..Len(dialogs) : i \in 1..Len(Popped) \/ i = Len(dialogs)
           /\ Top = dialogs[Len(dialogs)] /\ Top \in SecretDialogs
           /\ \A k : Shows(dialogs, k) <=> Shows(Popped, k) \/ Top.kind = k
<1> DEFINE n == Len(dialogs)
<1>1. n \in Nat \ {0} /\ DOMAIN dialogs = 1..n /\ dialogs[n] \in SecretDialogs
  OBVIOUS
<1>0. \A k \in Nat \ {0} : \E m \in Nat : m = k - 1
  OBVIOUS
<1>2. PICK m \in Nat : m = n - 1
  BY <1>0, <1>1
<1>3. Popped = SubSeq(dialogs, 1, m) /\ Top = dialogs[n]
  BY <1>2 DEF Popped, Top
<1>4. SubSeq(dialogs, 1, m) \in Seq(SecretDialogs) /\ Len(SubSeq(dialogs, 1, m)) = m /\ \A i \in 1..m : SubSeq(dialogs, 1, m)[i] = dialogs[i]
  BY <1>1, <1>2
<1>5. Popped \in Seq(SecretDialogs) /\ Len(Popped) = m /\ DOMAIN Popped = 1..m /\ \A i \in 1..m : Popped[i] = dialogs[i]
  BY <1>3, <1>4
<1>6. \A i : i \in 1..n <=> i \in 1..m \/ i = n
  BY <1>1, <1>2
<1>7. n \notin 1..m
  BY <1>1, <1>2
<1> HIDE DEF n
<1>8. \A k : Shows(dialogs, k) <=> Shows(Popped, k) \/ Top.kind = k
  BY <1>1, <1>3, <1>5, <1>6 DEF Shows
<1> QED
  BY <1>1, <1>2, <1>3, <1>5, <1>6, <1>7, <1>8 DEF n

-----------------------------------------------------------------------------
(* Honest workers *)

\* What has been done stays done.
LEMMA HonestStays ==
    ASSUME setting => setting', existing' \subseteq existing, NEW c, Honest(c)
    PROVE  (Honest(c))'
<1>1. \A result : SoOf(c, result) => (SoOf(c, result))'
  BY DEF SoOf
<1> QED
  BY <1>1 DEF Honest

LEMMA OneMoreHonest ==
    ASSUME SecretsTypeOK, WorkersAreHonest, setting => setting', existing' \subseteq existing,
           NEW t \in Errands, NEW c \in SecretChanges, change' = [change EXCEPT ![t] = c], (Honest(c))'
    PROVE  WorkersAreHonest'
<1>1. \A u \in Errands : change'[u] = IF u = t THEN c ELSE change[u]
  BY DEF SecretsTypeOK
<1>2. \A d : Honest(d) => (Honest(d))'
  BY HonestStays
<1> QED
  BY <1>1, <1>2 DEF WorkersAreHonest

LEMMA RestHonest ==
    ASSUME WorkersAreHonest, setting => setting', existing' \subseteq existing, change' = change
    PROVE  WorkersAreHonest'
<1>1. \A d : Honest(d) => (Honest(d))'
  BY HonestStays
<1> QED
  BY <1>1 DEF WorkersAreHonest

\* A worker in the next slot has done and told nothing.
LEMMA AskedHonest ==
    ASSUME SecretsTypeOK, NEW kind \in Operations \cup {"key", "revoke", "detail"}, NEW on \in Credentials \cup {Nil}, Ask(kind, on)
    PROVE  /\ Slot \in Errands /\ Slot \in Nat \ {Nil} /\ change[Slot] = NoChange /\ NewChange(kind, on) \in SecretChanges
           /\ change' = [change EXCEPT ![Slot] = NewChange(kind, on)]
           /\ change' \in [Errands -> SecretChanges \cup {NoChange}]
           /\ \A t \in Errands : change'[t] = IF t = Slot THEN NewChange(kind, on) ELSE change[t]
           /\ NewChange(kind, on).kind = kind /\ NewChange(kind, on).on = on /\ NewChange(kind, on).step = "write"
           /\ ~NewChange(kind, on).issued
           /\ WorkersAreHonest /\ UNCHANGED <<setting, existing>> => WorkersAreHonest'
<1>1. Slot \in Errands /\ change[Slot] = NoChange
  BY DEF Slot, Ask
<1>2. Slot \in Nat \ {Nil}
  BY <1>1, SecretsAssumption
<1>3. PICK c \in SecretChanges : c = NewChange(kind, on)
  BY DEF NewChange, SecretChanges, SecretResults, SecretsTypeOK
<1>4. /\ c.kind = kind /\ c.on = on /\ c.step = "write" /\ ~c.issued /\ ~c.reached
      /\ c.sent = "no" /\ c.result = "none" /\ c.told = "none"
  BY <1>3 DEF NewChange
<1>5. change' = [change EXCEPT ![Slot] = c]
  BY <1>3 DEF Ask
<1>6. change' \in [Errands -> SecretChanges \cup {NoChange}] /\ \A t \in Errands : change'[t] = IF t = Slot THEN c ELSE change[t]
  BY <1>1, <1>5 DEF SecretsTypeOK
<1>7. (Honest(c))'
  BY <1>4 DEF Honest, SoOf
<1>8. WorkersAreHonest /\ UNCHANGED <<setting, existing>> => WorkersAreHonest'
  <2>1. PICK s \in Errands : s = Slot
    BY <1>1
  <2> QED
    <3>1. change' = [change EXCEPT ![s] = c]
      BY <1>5, <2>1
    <3>2. ASSUME WorkersAreHonest, UNCHANGED <<setting, existing>>
          PROVE  WorkersAreHonest'
      BY <1>7, <2>1, <3>1, <3>2, OneMoreHonest
    <3> QED
      BY <3>2
<1> QED
  BY <1>1, <1>2, <1>3, <1>4, <1>5, <1>6, <1>8

\* A worker learns something: its record is another, of the same change.
Learns(t, c) ==
    /\ change[t] \in SecretChanges /\ change[t].step # "ended"
    /\ change' = [change EXCEPT ![t] = c]
    /\ c \in SecretChanges /\ c.kind = change[t].kind /\ c.on = change[t].on /\ c.step # "ended"
    /\ c.issued => GivesSecret(c.kind)

\* Each step of a worker: what it knows then.
LEMMA AcceptedHonest ==
    ASSUME SecretsInv, NEW t \in Errands, Accepted(t)
    PROVE  WorkersAreHonest' /\ \E c : Learns(t, c)
<1>0. PICK b : b = change[t]
  OBVIOUS
<1> DEFINE gives == "accepted" = "accepted" /\ GivesSecret(change[t].kind)
<1>1. b \in SecretChanges /\ b # NoChange /\ b.step = "write" /\ b.kind # "detail" /\ Honest(b) /\ change \in [Errands -> SecretChanges \cup {NoChange}]
  BY <1>0, ChangesAre DEF SecretsInv, Accepted, Works, WorkersAreHonest, SecretsTypeOK
<1>2. PICK step \in {"answered", "verify"}, result \in {"Created", "none"} :
        /\ Written(t, "accepted", TRUE, step, result)
        /\ result = "Created" => b.kind = "key"
  BY <1>0 DEF Accepted
<1>3. gives \in BOOLEAN /\ (gives <=> GivesSecret(b.kind))
  BY <1>0 DEF GivesSecret
<1>4. change' = [change EXCEPT ![t].sent = "accepted", ![t].reached = TRUE, ![t].step = step, ![t].result = result, ![t].issued = gives]
  BY <1>2 DEF Written
<1> HIDE DEF gives
<1>5. PICK c : c = [b EXCEPT !.sent = "accepted", !.reached = TRUE, !.step = step, !.result = result, !.issued = gives]
  OBVIOUS
<1>6. change' = [change EXCEPT ![t] = c] /\ change'[t] = c
  BY <1>0, <1>1, <1>4, <1>5
<1>7. /\ c \in SecretChanges /\ c.kind = b.kind /\ c.on = b.on /\ c.step = step /\ c.sent = "accepted" /\ c.reached
      /\ c.issued = gives /\ c.result = result /\ c.told = b.told
  BY <1>1, <1>3, <1>5 DEF SecretChanges, SecretResults
<1>8. /\ setting => setting'
      /\ existing' \subseteq existing
      /\ b.kind = "edit" => setting'
      /\ b.kind = "revoke" => b.on \notin existing'
  BY <1>0 DEF Accepted, TakesEffect
<1>9. (Honest(c))'
  <2>3. (SoOf(c, c.result))'
    BY <1>2, <1>3, <1>7, <1>8 DEF SoOf, GivesSecret
  <2>4. (SoOf(c, c.told))'
    BY <1>1, <1>7 DEF SoOf, Honest
  <2>5. c.told = "none" /\ c.kind # "detail" /\ c.step # "write"
    BY <1>1, <1>7 DEF Honest
  <2>6. GivesSecret(c.kind) => c.issued
    BY <1>3, <1>7
  <2> QED
    BY <1>7, <1>8, <2>3, <2>4, <2>5, <2>6 DEF Honest
<1>10. WorkersAreHonest'
  BY <1>6, <1>7, <1>8, <1>9, OneMoreHonest DEF SecretsInv
<1> QED
  BY <1>0, <1>1, <1>3, <1>6, <1>7, <1>10 DEF Learns

LEMMA LostHonest ==
    ASSUME SecretsInv, NEW t \in Errands, Refused(t) \/ AnswerLost(t) \/ AnswerUnread(t)
    PROVE  WorkersAreHonest' /\ \E c : Learns(t, c)
<1>0. PICK b : b = change[t]
  OBVIOUS
<1>1. /\ b \in SecretChanges /\ b # NoChange /\ b.step = "write" /\ b.kind # "detail" /\ Honest(b) /\ ~b.issued
      /\ change \in [Errands -> SecretChanges \cup {NoChange}]
  BY <1>0, ChangesAre DEF SecretsInv, Refused, AnswerLost, AnswerUnread, Works, WorkersAreHonest, SecretsTypeOK, Honest
<1>2. PICK sent \in {"refused", "lost", "unread"}, took \in BOOLEAN, step \in {"answered", "verify"}, result \in {"Failed", "Unknown", "none"} :
        /\ Written(t, sent, took, step, result)
        /\ result = "Failed" => b.kind = "key" \/ ~took \/ sent = "unread"
        /\ step = "verify" => sent = "lost" /\ b.kind \in {"create", "edit", "revoke"}
        /\ setting => setting'
        /\ existing' \subseteq existing
  <2>1. CASE Refused(t)
    BY <2>1 DEF Refused, Remote
  <2>2. CASE AnswerLost(t)
    <3>1. b.kind \in {"key", "rotate", "test", "create", "edit", "revoke"}
      BY <1>1 DEF SecretChanges, Operations
    <3>2. PICK took \in BOOLEAN : /\ Written(t, "lost", took, AfterLoss(b.kind).step, AfterLoss(b.kind).result)
                                  /\ setting => setting'
                                  /\ existing' \subseteq existing
      <4>1. CASE TakesEffect(b) /\ Written(t, "lost", TRUE, AfterLoss(b.kind).step, AfterLoss(b.kind).result)
        <5>1. /\ setting => setting'
              /\ existing' \subseteq existing
          BY <4>1 DEF TakesEffect
        <5> QED
          BY <4>1, <5>1
      <4>2. CASE Remote /\ Written(t, "lost", FALSE, AfterLoss(b.kind).step, AfterLoss(b.kind).result)
        BY <4>2 DEF Remote
      <4> QED
        BY <1>0, <2>2, <4>1, <4>2 DEF AnswerLost
    <3>3. CASE b.kind = "key"
      BY <3>2, <3>3 DEF AfterLoss
    <3>4. CASE b.kind \in {"rotate", "test"}
      BY <3>2, <3>4 DEF AfterLoss
    <3>5. CASE b.kind \in {"create", "edit", "revoke"}
      BY <3>2, <3>5 DEF AfterLoss
    <3> QED
      BY <3>1, <3>3, <3>4, <3>5
  <2>3. CASE AnswerUnread(t)
    <3>1. Written(t, "unread", TRUE, "answered", "Failed") /\ TakesEffect(b)
      BY <1>0, <2>3 DEF AnswerUnread
    <3>2. (setting => setting') /\ existing' \subseteq existing
      BY <3>1 DEF TakesEffect
    <3> QED
      BY <3>1, <3>2
  <2> QED
    BY <2>1, <2>2, <2>3
<1> DEFINE gives == sent = "accepted" /\ GivesSecret(change[t].kind)
<1>3. gives \in BOOLEAN /\ ~gives
  BY <1>2
<1>4. change' = [change EXCEPT ![t].sent = sent, ![t].reached = took, ![t].step = step, ![t].result = result, ![t].issued = gives]
  BY <1>2 DEF Written
<1> HIDE DEF gives
<1>5. PICK c : c = [b EXCEPT !.sent = sent, !.reached = took, !.step = step, !.result = result, !.issued = gives]
  OBVIOUS
<1>6. change' = [change EXCEPT ![t] = c]
  BY <1>0, <1>1, <1>4, <1>5
<1>7. /\ c \in SecretChanges /\ c.kind = b.kind /\ c.on = b.on /\ c.step = step /\ c.sent = sent /\ (c.reached <=> took)
      /\ c.issued = gives /\ c.result = result /\ c.told = b.told
  BY <1>1, <1>3, <1>5 DEF SecretChanges, SecretResults
<1>8. (Honest(c))'
  <2>1. (SoOf(c, c.result))'
    BY <1>2, <1>7 DEF SoOf
  <2>2. (SoOf(c, c.told))'
    BY <1>1, <1>7 DEF SoOf, Honest
  <2> QED
    BY <1>1, <1>2, <1>7, <2>1, <2>2 DEF Honest
<1>9. WorkersAreHonest'
  BY <1>2, <1>6, <1>7, <1>8, OneMoreHonest DEF SecretsInv
<1> QED
  BY <1>0, <1>1, <1>3, <1>6, <1>7, <1>9 DEF Learns

\* VerifyChange: what is said is what was read, or what the answer told.
LEMMA VerifiedHonest ==
    ASSUME SecretsInv, NEW t \in Errands, VerifyChange(t)
    PROVE  WorkersAreHonest' /\ \E c : Learns(t, c)
<1>0. PICK b : b = change[t]
  OBVIOUS
<1>1. /\ b \in SecretChanges /\ b # NoChange /\ b.step = "verify" /\ Honest(b) /\ (b.issued => GivesSecret(b.kind))
      /\ change \in [Errands -> SecretChanges \cup {NoChange}]
  BY <1>0, ChangesAre DEF SecretsInv, VerifyChange, Works, WorkersAreHonest, SecretsTypeOK, Answered, SecretsOnTheirWay
<1>2. PICK looked \in {"found", "not found", "unread"} :
        /\ looked = "found" => Observed(b)
        /\ looked = "not found" => ~Observed(b)
        /\ change' = [change EXCEPT ![t].step = "answered", ![t].result = Reconciled(b, looked)]
  BY <1>0 DEF VerifyChange
<1>3. PICK result : result = Reconciled(b, looked)
  OBVIOUS
<1>4. result \in {"Unknown", "Verified", "Failed", "Unverified"}
  BY <1>3 DEF Reconciled
<1>5. PICK c : c = [b EXCEPT !.step = "answered", !.result = result]
  OBVIOUS
<1>6. change' = [change EXCEPT ![t] = c] /\ UNCHANGED <<setting, existing>>
  BY <1>0, <1>1, <1>2, <1>3, <1>5 DEF VerifyChange, Remote
<1>7. /\ c \in SecretChanges /\ c.kind = b.kind /\ c.on = b.on /\ c.step = "answered" /\ c.sent = b.sent /\ c.reached = b.reached
      /\ c.issued = b.issued /\ c.result = result /\ c.told = b.told
  BY <1>1, <1>4, <1>5 DEF SecretChanges, SecretResults
<1>8. SoOf(b, result)
  <2>1. b.sent = "accepted" \/ (b.sent = "lost" /\ b.kind \in {"create", "edit", "revoke"})
    BY <1>1 DEF Honest
  <2>2. b.kind \in {"key", "rotate", "test", "create", "edit", "revoke", "detail"}
    BY <1>1 DEF SecretChanges, Operations
  <2>3. CASE result = "Verified"
    <3>1. looked = "found" /\ Observed(b) /\ ~(b.kind = "create" /\ b.sent = "lost")
      BY <1>2, <1>3, <2>3 DEF Reconciled
    <3>2. CASE b.sent = "accepted"
      BY <1>1, <2>3, <3>2 DEF SoOf, Honest
    <3>3. CASE b.sent = "lost" /\ b.kind \in {"edit", "revoke"}
      BY <2>3, <3>1, <3>3 DEF SoOf, Observed, GivesSecret
    <3> QED
      BY <2>1, <3>1, <3>2, <3>3
  <2>4. CASE result = "Unverified"
    <3>1. b.sent # "lost"
      BY <1>3, <2>4 DEF Reconciled
    <3> QED
      BY <1>1, <2>1, <2>4, <3>1 DEF SoOf, Honest
  <2>5. CASE result = "Failed"
    <3>1. b.kind = "revoke" /\ b.sent # "lost" /\ looked = "not found"
      BY <1>3, <2>5 DEF Reconciled
    <3>2. b.on \notin existing /\ ~Observed(b)
      BY <1>1, <1>2, <2>1, <3>1 DEF Honest
    <3> QED
      BY <3>1, <3>2 DEF Observed
  <2>6. CASE result = "Unknown"
    BY <2>6 DEF SoOf
  <2> QED
    BY <1>4, <2>3, <2>4, <2>5, <2>6
<1>9. (Honest(c))'
  <2>1. Honest(c)
    <3>1. SoOf(c, c.result)
      BY <1>7, <1>8 DEF SoOf
    <3>2. SoOf(c, c.told)
      BY <1>1, <1>7 DEF Honest, SoOf
    <3>3. b.kind # "detail"
      BY <1>1 DEF Honest
    <3> QED
      BY <1>1, <1>7, <3>1, <3>2, <3>3 DEF Honest
  <2> QED
    BY <1>6, <2>1, HonestStays
<1>10. WorkersAreHonest'
  BY <1>6, <1>7, <1>9, OneMoreHonest DEF SecretsInv
<1> QED
  BY <1>0, <1>1, <1>6, <1>7, <1>10 DEF Learns

LEMMA DetailHonest ==
    ASSUME SecretsInv, NEW t \in Errands, ReadDetail(t)
    PROVE  WorkersAreHonest' /\ \E c : Learns(t, c)
<1>0. PICK b : b = change[t]
  OBVIOUS
<1>1. /\ b \in SecretChanges /\ b # NoChange /\ b.step = "write" /\ b.kind = "detail" /\ Honest(b) /\ ~b.issued
      /\ change \in [Errands -> SecretChanges \cup {NoChange}]
  BY <1>0, ChangesAre DEF SecretsInv, ReadDetail, Works, WorkersAreHonest, SecretsTypeOK, Honest
<1>2. PICK result \in {"there", "gone", "unread"} : change' = [change EXCEPT ![t].step = "answered", ![t].result = result]
  BY DEF ReadDetail
<1>5. PICK c : c = [b EXCEPT !.step = "answered", !.result = result]
  OBVIOUS
<1>6. change' = [change EXCEPT ![t] = c] /\ UNCHANGED <<setting, existing>>
  BY <1>0, <1>1, <1>2, <1>5 DEF ReadDetail, Remote
<1>7. /\ c \in SecretChanges /\ c.kind = b.kind /\ c.on = b.on /\ c.step = "answered" /\ c.sent = b.sent /\ c.reached = b.reached
      /\ c.issued = b.issued /\ c.result = result /\ c.told = b.told
  BY <1>1, <1>2, <1>5 DEF SecretChanges, SecretResults
<1>8. Honest(c)
  BY <1>1, <1>2, <1>7 DEF Honest, SoOf
<1>9. WorkersAreHonest'
  BY <1>6, <1>7, <1>8, HonestStays, OneMoreHonest DEF SecretsInv
<1> QED
  BY <1>0, <1>1, <1>6, <1>7, <1>9 DEF Learns

-----------------------------------------------------------------------------
(* What is open *)

LEMMA AllowanceFits ==
    ASSUME permitted \in SecretAllowances, NEW what \in {"refreshes", "faults", "connects"}, Allow(what)
    PROVE  permitted' \in SecretAllowances
<1>1. permitted[what] \in Nat /\ permitted[what] > 0
  BY DEF SecretAllowances, Allow
<1>2. PICK less \in Nat : less = permitted[what] - 1
  BY <1>1
<1>3. permitted' = [permitted EXCEPT ![what] = less]
  BY <1>2 DEF Allow
<1> QED
  BY <1>2, <1>3 DEF SecretAllowances

LEMMA StackPushed ==
    ASSUME SecretsTypeOK, StackFits, NEW d \in SecretDialogs, Push(d),
           d.kind \in Operations \cup {"key"} => dialogs = <<>>,
           d.kind = "secret" => secret = Nil /\ secret' # Nil,
           d.kind # "secret" => secret' = secret
    PROVE  /\ dialogs' \in Seq(SecretDialogs) /\ StackFits'
           /\ \A k : Shows(dialogs', k) <=> Shows(dialogs, k) \/ d.kind = k
           /\ \A i \in 1..Len(dialogs) : i \in 1..Len(dialogs') /\ dialogs'[i] = dialogs[i]
           /\ \E i \in 1..Len(dialogs') : dialogs'[i] = d
<1>1. dialogs \in Seq(SecretDialogs) /\ dialogs' = Append(dialogs, d)
  BY DEF SecretsTypeOK, Push
<1>2. PICK n \in Nat : n = Len(dialogs)
  BY <1>1
<1>3. PICK es \in Seq(SecretDialogs) : es = dialogs'
  BY <1>1, PushedStack
<1>4. /\ Len(es) = n + 1 /\ es[n + 1] = d /\ \A i \in 1..n : es[i] = dialogs[i]
      /\ \A k : Shows(es, k) <=> Shows(dialogs, k) \/ d.kind = k
  BY <1>1, <1>2, <1>3, PushedStack
<1>5. \A i : i \in 1..(n + 1) <=> i \in 1..n \/ i = n + 1
  BY <1>2
<1>6. \A i \in 1..(n + 1) : es[i].kind \in Operations \cup {"key"} => i = 1
  <2>1. dialogs = <<>> => n = 0
    BY <1>2
  <2>2. \A i \in 1..n : es[i].kind \in Operations \cup {"key"} => i = 1
    BY <1>2, <1>4 DEF StackFits
  <2> QED
    BY <1>4, <1>5, <2>1, <2>2
<1>7. \A i, j \in 1..(n + 1) : es[i].kind = "secret" /\ es[j].kind = "secret" => i = j
  <2>1. \A i, j \in 1..n : es[i].kind = "secret" /\ es[j].kind = "secret" => i = j
    BY <1>2, <1>4 DEF StackFits
  <2>2. d.kind = "secret" => \A i \in 1..n : es[i].kind # "secret"
    <3>1. DOMAIN dialogs = 1..n
      BY <1>1, <1>2
    <3> QED
      BY <1>4, <3>1 DEF StackFits, Shows
  <2> QED
    BY <1>4, <1>5, <2>1, <2>2
<1>8. secret' # Nil <=> Shows(es, "secret")
  BY <1>4 DEF StackFits
<1>9. StackFits'
  BY <1>3, <1>4, <1>6, <1>7, <1>8 DEF StackFits
<1>10. n + 1 \in 1..(n + 1)
  BY <1>2
<1> QED
  BY <1>2, <1>3, <1>4, <1>5, <1>9, <1>10

\* A secret is closed: there is no other on the stack.
LEMMA StackPopped ==
    ASSUME SecretsTypeOK, StackFits, dialogs # <<>>, dialogs' = Popped,
           Top.kind = "secret" => secret' = Nil,
           Top.kind # "secret" => secret' = secret
    PROVE  /\ dialogs' \in Seq(SecretDialogs) /\ StackFits' /\ Top \in SecretDialogs
           /\ \A k : Shows(dialogs, k) <=> Shows(dialogs', k) \/ Top.kind = k
           /\ Top.kind \in Operations \cup {"key"} => \A k : ~Shows(dialogs', k)
           /\ \A i \in 1..Len(dialogs) : (i \in 1..Len(dialogs') /\ dialogs'[i] = dialogs[i]) \/ Top = dialogs[i]
           /\ Top.kind = "secret" => ~Shows(dialogs', "secret")
<1>1. dialogs \in Seq(SecretDialogs)
  BY DEF SecretsTypeOK
<1>2. PICK n \in Nat \ {0} : n = Len(dialogs)
  BY <1>1, PoppedStack
<1>3. PICK es \in Seq(SecretDialogs) : es = dialogs'
  BY <1>1, PoppedStack
<1>4. PICK m \in Nat : m = Len(es)
  BY <1>3
<1>5. PICK top \in SecretDialogs : top = Top
  BY <1>1, PoppedStack
<1>6. /\ top = dialogs[n] /\ m = n - 1
      /\ \A i \in 1..m : es[i] = dialogs[i] /\ i \in 1..n /\ i # n
      /\ \A i \in 1..n : i \in 1..m \/ i = n
      /\ \A k : Shows(dialogs, k) <=> Shows(es, k) \/ top.kind = k
  BY <1>1, <1>2, <1>3, <1>4, <1>5, PoppedStack
<1>7. n \in 1..n
  BY <1>2
<1>8. /\ \A i \in 1..m : es[i].kind \in Operations \cup {"key"} => i = 1
      /\ \A i, j \in 1..m : es[i].kind = "secret" /\ es[j].kind = "secret" => i = j
  <2>1. \A i \in 1..m : i \in 1..n /\ es[i] = dialogs[i]
    BY <1>6
  <2>2. /\ \A i \in 1..n : dialogs[i].kind \in Operations \cup {"key"} => i = 1
        /\ \A i, j \in 1..n : dialogs[i].kind = "secret" /\ dialogs[j].kind = "secret" => i = j
    BY <1>2 DEF StackFits
  <2>3. \A i \in 1..m : es[i].kind \in Operations \cup {"key"} => i = 1
    BY <2>1, <2>2
  <2>4. \A i, j \in 1..m : es[i].kind = "secret" /\ es[j].kind = "secret" => i = j
    BY <2>1, <2>2
  <2> QED
    BY <2>3, <2>4
<1>9. DOMAIN es = 1..m
  BY <1>3, <1>4
<1>10. top.kind = "secret" => ~Shows(es, "secret")
  BY <1>2, <1>6, <1>7, <1>9 DEF StackFits, Shows
<1>11. secret' # Nil <=> Shows(es, "secret")
  BY <1>5, <1>6, <1>10 DEF StackFits
<1>12. StackFits'
  BY <1>3, <1>4, <1>8, <1>11 DEF StackFits
<1>13. top.kind \in Operations \cup {"key"} => \A k : ~Shows(es, k)
  <2>1. top.kind \in Operations \cup {"key"} => m = 0
    BY <1>2, <1>6, <1>7 DEF StackFits
  <2>2. m = 0 => DOMAIN es = {}
    BY <1>9
  <2> QED
    BY <2>1, <2>2 DEF Shows
<1> QED
  BY <1>2, <1>3, <1>4, <1>5, <1>6, <1>10, <1>12, <1>13

LEMMA StackStays ==
    ASSUME StackFits, UNCHANGED <<dialogs, secret>>
    PROVE  StackFits'
BY DEF StackFits, Shows

-----------------------------------------------------------------------------
(* Workers *)

\* The kinds are apart.
LEMMA WorkerSteps ==
    ASSUME SecretsTypeOK, NEW t \in Errands, NEW c \in SecretChanges, change[t] \in SecretChanges,
           change' = [change EXCEPT ![t] = c]
    PROVE  /\ change' \in [Errands -> SecretChanges \cup {NoChange}]
           /\ \A u \in Errands : change'[u] = IF u = t THEN c ELSE change[u]
           /\ c # NoChange /\ change[t] # NoChange
BY NoneIsNoChange DEF SecretsTypeOK

LEMMA WorkerKeeps ==
    ASSUME SecretsInv, NEW t \in Errands, NEW c, Learns(t, c), WorkerOnly,
           permitted' \in SecretAllowances, setting' \in BOOLEAN, existing' \subseteq existing
    PROVE  SecretsTypeOK' /\ Answered'
<1>1. /\ SecretsTypeOK /\ WorkersAreAwaited /\ OneSecret /\ StackFits /\ SecretsOnTheirWay /\ HeldIsLetGo
      /\ UNCHANGED <<keyRequest, keyPending, opPending, revokePending, listed, cursor, enrolled, adminGen, dialogs, secret, closed>>
  BY DEF SecretsInv, Answered, WorkerOnly, Held, Listing
<1>2. /\ change[t] \in SecretChanges /\ change[t].step # "ended" /\ change' = [change EXCEPT ![t] = c]
      /\ c \in SecretChanges /\ c.kind = change[t].kind /\ c.on = change[t].on /\ c.step # "ended"
      /\ c.issued => GivesSecret(c.kind)
  BY DEF Learns
<1>3. /\ change' \in [Errands -> SecretChanges \cup {NoChange}]
      /\ \A u \in Errands : change'[u] = IF u = t THEN c ELSE change[u]
      /\ c # NoChange /\ change[t] # NoChange
  BY <1>1, <1>2, WorkerSteps
<1>4. \A u \in Errands : /\ Working(u)' <=> Working(u)
                         /\ Working(u) => change'[u].kind = change[u].kind /\ change'[u].on = change[u].on
                         /\ u # t => change'[u] = change[u]
  BY <1>2, <1>3 DEF Working
<1>5. keyPending \in Errands \cup {Nil} /\ opPending \in Errands \cup {Nil}
  BY <1>1 DEF SecretsTypeOK
<1>6. SecretsTypeOK'
  BY <1>1, <1>3 DEF SecretsTypeOK
<1>7. WorkersAreAwaited'
  BY <1>1, <1>4, <1>5 DEF WorkersAreAwaited
<1>8. OneSecret'
  <2>1. opPending # Nil => change'[opPending].kind = change[opPending].kind
    BY <1>1, <1>4, <1>5 DEF WorkersAreAwaited
  <2> QED
    BY <1>1, <2>1 DEF OneSecret, Shows
<1>9. SecretsOnTheirWay'
  <2>1. Working(t)
    BY <1>2, <1>3 DEF Working
  <2> QED
    BY <1>1, <1>2, <1>3, <1>4, <2>1 DEF SecretsOnTheirWay
<1>10. HeldIsLetGo'
  BY <1>1, <1>4 DEF HeldIsLetGo, Shows
<1> QED
  BY <1>1, <1>6, <1>7, <1>8, <1>9, <1>10, StackStays DEF Answered

-----------------------------------------------------------------------------
(* The user *)

LEMMA Parts ==
    ASSUME SecretsInv
    PROVE  /\ SecretsTypeOK /\ WorkersAreAwaited /\ OneSecret /\ StackFits /\ SecretsOnTheirWay /\ HeldIsLetGo /\ WorkersAreHonest
           /\ permitted \in SecretAllowances /\ adminGen \in Nat /\ adminGen + 1 \in Nat
           /\ {keyPending, opPending, secret} \subseteq Errands \cup {Nil}
           /\ revokePending \in Credentials \cup {Nil} /\ dialogs \in Seq(SecretDialogs)
           /\ Nil \notin Errands /\ Nil \notin Credentials
BY SecretsAssumption DEF SecretsInv, Answered, SecretsTypeOK

\* Nothing but the reviews and what is shown changes.
LEMMA NobodyWorks ==
    ASSUME SecretsInv, UNCHANGED <<change, existing, setting>>
    PROVE  /\ WorkersAreHonest' /\ \A u : Working(u)' <=> Working(u)
BY Parts, RestHonest DEF Working

LEMMA DialogIs ==
    ASSUME adminGen \in Nat, NEW kind \in Operations \cup {"key", "revoke", "secret"}, NEW on \in Credentials \cup {Nil}
    PROVE  Dialog(kind, on) \in SecretDialogs /\ Dialog(kind, on).kind = kind /\ Dialog(kind, on).on = on
BY DEF Dialog, SecretDialogs

LEMMA ReviewKeyKeeps ==
    ASSUME SecretsInv, ReviewKey
    PROVE  SecretsInv'
<1>1. /\ KeyOffered /\ keyRequest' = TRUE /\ dialogs = <<>> /\ Push(Dialog("key", Nil))
      /\ UNCHANGED <<permitted, enrolled, adminGen, keyPending, opPending, revokePending, secret, change, closed, existing, setting, listed, cursor>>
  BY DEF ReviewKey, Remote, Listing
<1>2. PICK d \in SecretDialogs : d = Dialog("key", Nil) /\ d.kind = "key"
  <2>1. Nil \in Credentials \cup {Nil}
    OBVIOUS
  <2> QED
    BY <2>1, Parts, DialogIs
<1>3. /\ dialogs' \in Seq(SecretDialogs) /\ StackFits'
      /\ \A k : Shows(dialogs', k) <=> Shows(dialogs, k) \/ d.kind = k
  BY <1>1, <1>2, Parts, StackPushed
<1>4. SecretsTypeOK'
  BY <1>1, <1>3, Parts DEF SecretsTypeOK
<1>5. WorkersAreAwaited' /\ SecretsOnTheirWay'
  BY <1>1, Parts DEF WorkersAreAwaited, SecretsOnTheirWay, Working
<1>6. OneSecret'
  BY <1>1, <1>2, <1>3, Parts DEF OneSecret, KeyOffered
<1>7. HeldIsLetGo'
  <2>1. revokePending # Nil => \E t \in Errands : Working(t) /\ change[t].kind \in {"detail", "revoke"} /\ change[t].on = revokePending
    <3>1. dialogs = <<>> => 1..Len(dialogs) = {}
      OBVIOUS
    <3> QED
      BY <1>1, <3>1, Parts DEF HeldIsLetGo
  <2>2. revokePending' # Nil => \E t \in Errands : Working(t)' /\ change'[t].kind \in {"detail", "revoke"} /\ change'[t].on = revokePending'
    BY <1>1, <2>1 DEF Working
  <2>3. PICK es : es = dialogs'
    OBVIOUS
  <2>4. Shows(es, "key")
    BY <1>2, <1>3, <2>3
  <2> QED
    BY <1>1, <2>2, <2>3, <2>4 DEF HeldIsLetGo
<1> QED
  BY <1>1, <1>3, <1>4, <1>5, <1>6, <1>7, NobodyWorks DEF SecretsInv, Answered

LEMMA ReviewOperationKeeps ==
    ASSUME SecretsInv, NEW kind \in Operations, ReviewOperation(kind)
    PROVE  SecretsInv'
<1>1. /\ OperationOffered(kind) /\ dialogs = <<>> /\ Push(Dialog(kind, Nil))
      /\ UNCHANGED <<permitted, enrolled, adminGen, keyRequest, keyPending, opPending, revokePending, secret, change, closed, existing, setting, listed, cursor>>
  BY DEF ReviewOperation, Remote, Listing, Held
<1>2. PICK d \in SecretDialogs : d = Dialog(kind, Nil) /\ d.kind \notin {"key", "secret", "revoke"}
  <2>1. Nil \in Credentials \cup {Nil} /\ kind \notin {"key", "secret", "revoke"}
    BY NoneIsNoChange
  <2> QED
    BY <2>1, Parts, DialogIs
<1>3. /\ dialogs' \in Seq(SecretDialogs) /\ StackFits'
      /\ \A k : Shows(dialogs', k) <=> Shows(dialogs, k) \/ d.kind = k
  BY <1>1, <1>2, Parts, StackPushed
<1>4. SecretsTypeOK'
  BY <1>1, <1>3, Parts DEF SecretsTypeOK
<1>5. WorkersAreAwaited' /\ SecretsOnTheirWay'
  BY <1>1, Parts DEF WorkersAreAwaited, SecretsOnTheirWay, Working
<1>6. OneSecret'
  BY <1>1, <1>2, <1>3, Parts DEF OneSecret
<1>7. HeldIsLetGo'
  <2>1. revokePending # Nil => \E t \in Errands : Working(t) /\ change[t].kind \in {"detail", "revoke"} /\ change[t].on = revokePending
    <3>1. dialogs = <<>> => 1..Len(dialogs) = {}
      OBVIOUS
    <3> QED
      BY <1>1, <3>1, Parts DEF HeldIsLetGo
  <2>2. revokePending' # Nil => \E t \in Errands : Working(t)' /\ change'[t].kind \in {"detail", "revoke"} /\ change'[t].on = revokePending'
    BY <1>1, <2>1 DEF Working
  <2>3. PICK es : es = dialogs'
    OBVIOUS
  <2>4. keyRequest => Shows(es, "key")
    BY <1>3, <2>3, Parts DEF HeldIsLetGo
  <2> QED
    BY <1>1, <2>2, <2>3, <2>4 DEF HeldIsLetGo
<1> QED
  BY <1>1, <1>3, <1>4, <1>5, <1>6, <1>7, NobodyWorks DEF SecretsInv, Answered

LEMMA StillKeeps ==
    ASSUME SecretsInv, UNCHANGED <<keyPending, opPending, revokePending, dialogs, secret, change, closed, existing, setting>>,
           keyRequest' = keyRequest \/ (keyRequest' = FALSE /\ keyRequest \in BOOLEAN),
           enrolled' \in BOOLEAN, adminGen' \in Nat, permitted' \in SecretAllowances,
           listed' \subseteq Credentials, cursor' \in Credentials
    PROVE  SecretsInv'
<1>1. SecretsTypeOK'
  BY Parts DEF SecretsTypeOK
<1>2. WorkersAreAwaited' /\ SecretsOnTheirWay'
  BY Parts DEF WorkersAreAwaited, SecretsOnTheirWay, Working
<1>3. OneSecret' /\ StackFits'
  BY Parts, StackStays DEF OneSecret, Shows
<1>4. HeldIsLetGo'
  BY Parts DEF HeldIsLetGo, Shows, Working
<1> QED
  BY <1>1, <1>2, <1>3, <1>4, NobodyWorks DEF SecretsInv, Answered

LEMMA LooksKeep ==
    ASSUME SecretsInv, Select \/ SwitchProfileAway \/ Relist
    PROVE  SecretsInv'
<1>1. CASE Select
  BY <1>1, Parts, StillKeeps DEF Select, Remote, Held, SecretsTypeOK
<1>2. CASE SwitchProfileAway
  <2>1. permitted' \in SecretAllowances
    BY <1>2, Parts, AllowanceFits DEF SwitchProfileAway
  <2>2. enrolled \in BOOLEAN /\ enrolled' = ~enrolled
    BY <1>2, Parts DEF SwitchProfileAway, SecretsTypeOK
  <2>3. enrolled' \in BOOLEAN
    BY <2>2
  <2> QED
    BY <1>2, <2>1, <2>3, Parts, StillKeeps DEF SwitchProfileAway, Remote, Listing, SecretsTypeOK
<1>3. CASE Relist
  <2>1. permitted' \in SecretAllowances
    BY <1>3, Parts, AllowanceFits DEF Relist
  <2> QED
    BY <1>3, <2>1, Parts, StillKeeps DEF Relist, Remote, Held, SecretsTypeOK
<1> QED
  BY <1>1, <1>2, <1>3

\* A worker more, and none less.
LEMMA AnotherWorks ==
    ASSUME SecretsInv, NEW kind \in Operations \cup {"key", "revoke", "detail"}, NEW on \in Credentials \cup {Nil}, Ask(kind, on),
           NEW s, s = Slot
    PROVE  /\ s \in Errands /\ s # Nil /\ ~Working(s) /\ Working(s)'
           /\ change' \in [Errands -> SecretChanges \cup {NoChange}]
           /\ change'[s].kind = kind /\ change'[s].on = on /\ ~change'[s].issued
           /\ \A u \in Errands : u # s => change'[u] = change[u] /\ (Working(u)' <=> Working(u))
           /\ SecretsOnTheirWay /\ UNCHANGED <<secret, closed>> => SecretsOnTheirWay'
           /\ UNCHANGED <<setting, existing>> => WorkersAreHonest'
<1>1. PICK c : c = NewChange(kind, on)
  OBVIOUS
<1>2. /\ c \in SecretChanges /\ s \in Errands /\ s # Nil /\ change[s] = NoChange
      /\ change' \in [Errands -> SecretChanges \cup {NoChange}]
      /\ \A t \in Errands : change'[t] = IF t = s THEN c ELSE change[t]
      /\ c.kind = kind /\ c.on = on /\ c.step = "write" /\ ~c.issued
  <2>1. /\ Slot \in Errands /\ Slot \in Nat \ {Nil} /\ change[Slot] = NoChange /\ NewChange(kind, on) \in SecretChanges
        /\ change' \in [Errands -> SecretChanges \cup {NoChange}]
        /\ \A t \in Errands : change'[t] = IF t = Slot THEN NewChange(kind, on) ELSE change[t]
        /\ NewChange(kind, on).kind = kind /\ NewChange(kind, on).on = on /\ NewChange(kind, on).step = "write"
        /\ ~NewChange(kind, on).issued
    <3>1. SecretsTypeOK
      BY Parts
    <3> QED
      BY <3>1, AskedHonest
  <2> QED
    BY <1>1, <2>1
<1>3. c # NoChange /\ change'[s] = c
  BY <1>2, NoneIsNoChange
<1>4. ~Working(s) /\ Working(s)'
  BY <1>2, <1>3 DEF Working
<1>5. \A u \in Errands : u # s => change'[u] = change[u] /\ (Working(u)' <=> Working(u))
  BY <1>2 DEF Working
<1>6. SecretsOnTheirWay /\ UNCHANGED <<secret, closed>> => SecretsOnTheirWay'
  BY <1>2, <1>3, <1>4, <1>5 DEF SecretsOnTheirWay
<1>7. UNCHANGED <<setting, existing>> => WorkersAreHonest'
  BY Parts, AskedHonest
<1> QED
  BY <1>2, <1>3, <1>4, <1>5, <1>6, <1>7

LEMMA ReviewRevocationKeeps ==
    ASSUME SecretsInv, ReviewRevocation
    PROVE  SecretsInv'
<1>1. /\ revokePending' = cursor /\ cursor \in Credentials /\ Ask("detail", cursor) /\ dialogs = <<>>
      /\ UNCHANGED <<permitted, enrolled, adminGen, dialogs, keyRequest, keyPending, opPending, secret, closed, existing, setting, listed, cursor>>
  BY Parts DEF ReviewRevocation, Remote, Listing, SecretsTypeOK
<1>2. PICK s : s = Slot
  OBVIOUS
<1>3. /\ s \in Errands /\ s # Nil /\ ~Working(s) /\ Working(s)'
      /\ change' \in [Errands -> SecretChanges \cup {NoChange}]
      /\ change'[s].kind = "detail" /\ change'[s].on = cursor
      /\ \A u \in Errands : u # s => change'[u] = change[u] /\ (Working(u)' <=> Working(u))
      /\ SecretsOnTheirWay' /\ WorkersAreHonest'
  BY <1>1, <1>2, Parts, AnotherWorks
<1>4. SecretsTypeOK'
  BY <1>1, <1>3, Parts DEF SecretsTypeOK
<1>5. WorkersAreAwaited'
  BY <1>1, <1>3, Parts, NoneIsNoChange DEF WorkersAreAwaited
<1>6. OneSecret' /\ StackFits'
  <2>1. opPending # Nil => change'[opPending] = change[opPending]
    BY <1>3, Parts DEF WorkersAreAwaited
  <2> QED
    BY <1>1, <2>1, Parts, StackStays DEF OneSecret, Shows
<1>7. HeldIsLetGo'
  BY <1>1, <1>3, Parts DEF HeldIsLetGo, Shows
<1> QED
  BY <1>3, <1>4, <1>5, <1>6, <1>7 DEF SecretsInv, Answered

LEMMA DismissKeeps ==
    ASSUME SecretsInv, Dismiss
    PROVE  SecretsInv'
<1>1. /\ dialogs # <<>> /\ LetGo(Top)
      /\ UNCHANGED <<permitted, enrolled, keyPending, opPending, change, existing, setting, listed, cursor>>
  BY DEF Dismiss, Remote, Listing
<1>2. /\ dialogs' = Popped /\ adminGen' \in Nat /\ closed' \subseteq Errands
      /\ Top.kind = "secret" => secret' = Nil /\ closed' = closed \cup {secret}
      /\ Top.kind # "secret" => secret' = secret /\ closed' = closed
  <2>1. CASE Top.kind = "secret"
    <3>1. /\ closed' = closed \cup {secret} /\ secret' = Nil /\ dialogs' = Without(Popped, "secret")
          /\ adminGen' \in {adminGen, adminGen + 1}
      BY <2>1 DEF Dismiss
    <3>2. Shows(dialogs, "secret") /\ ~Shows(Popped, "secret")
      <4>1. PICK n \in Nat \ {0} : n = Len(dialogs) /\ Top = dialogs[n] /\ n \in DOMAIN dialogs
        BY <1>1, Parts, PoppedStack
      <4>2. PICK es \in Seq(SecretDialogs) : es = Popped
        BY <1>1, Parts, PoppedStack
      <4>3. \A i \in 1..Len(es) : es[i] = dialogs[i] /\ i \in 1..n /\ i # n
        BY <1>1, <4>1, <4>2, Parts, PoppedStack
      <4>4. n \in 1..n /\ DOMAIN es = 1..Len(es)
        BY <4>1, <4>2
      <4>5. ~Shows(es, "secret")
        BY <2>1, <4>1, <4>3, <4>4, Parts DEF StackFits, Shows
      <4> QED
        BY <2>1, <4>1, <4>2, <4>5 DEF Shows
    <3>3. dialogs' = Popped
      BY <3>1, <3>2 DEF Without
    <3>4. secret \in Errands
      BY <3>2, Parts DEF StackFits
    <3>5. closed \subseteq Errands
      BY Parts DEF SecretsTypeOK
    <3> QED
      BY <2>1, <3>1, <3>3, <3>4, <3>5, Parts
  <2>2. CASE Top.kind # "secret"
    BY <2>2, Parts DEF Dismiss, SecretsTypeOK
  <2> QED
    BY <2>1, <2>2
<1>3. /\ dialogs' \in Seq(SecretDialogs) /\ StackFits' /\ Top \in SecretDialogs
      /\ \A k : Shows(dialogs, k) <=> Shows(dialogs', k) \/ Top.kind = k
      /\ \A i \in 1..Len(dialogs) : (i \in 1..Len(dialogs') /\ dialogs'[i] = dialogs[i]) \/ Top = dialogs[i]
  BY <1>1, <1>2, Parts, StackPopped
<1>4. PICK es, top : es = dialogs' /\ top = Top
  OBVIOUS
<1>5. /\ keyRequest' = (keyRequest /\ top.kind # "key")
      /\ revokePending' = IF top.kind = "revoke" THEN Nil ELSE revokePending
  BY <1>1, <1>4 DEF LetGo
<1>6. keyRequest' \in BOOLEAN /\ (keyRequest' <=> keyRequest /\ top.kind # "key")
  BY <1>5
<1>7. SecretsTypeOK'
  BY <1>1, <1>2, <1>3, <1>5, <1>6, Parts DEF SecretsTypeOK
<1>8. WorkersAreAwaited'
  BY <1>1, Parts DEF WorkersAreAwaited, Working
<1>9. SecretsOnTheirWay'
  BY <1>1, <1>2, Parts DEF SecretsOnTheirWay, Working
<1>10. OneSecret'
  <2>1. secret = Nil => secret' = Nil
    BY <1>2
  <2>2. Shows(es, "key") => Shows(dialogs, "key")
    BY <1>3, <1>4
  <2> QED
    BY <1>1, <1>4, <2>1, <2>2, Parts DEF OneSecret
<1>11. HeldIsLetGo'
  <2>1. keyRequest' => Shows(es, "key")
    BY <1>3, <1>4, <1>6, Parts DEF HeldIsLetGo
  <2>2. revokePending' # Nil =>
          \/ \E t \in Errands : Working(t)' /\ change'[t].kind \in {"detail", "revoke"} /\ change'[t].on = revokePending
          \/ \E i \in 1..Len(es) : es[i].kind = "revoke" /\ es[i].on = revokePending
    BY <1>1, <1>3, <1>4, <1>5, Parts DEF HeldIsLetGo, Working
  <2>3. revokePending' # Nil => revokePending' = revokePending
    BY <1>5
  <2> QED
    BY <1>4, <2>1, <2>2, <2>3 DEF HeldIsLetGo
<1> QED
  BY <1>1, <1>3, <1>7, <1>8, <1>9, <1>10, <1>11, NobodyWorks DEF SecretsInv, Answered

\* What is accepted was on top: a review of a change leaves nothing below it.
LEMMA ConfirmedStack ==
    ASSUME SecretsInv, NEW kind \in Operations \cup {"key", "revoke"}, Confirmed(kind), UNCHANGED secret
    PROVE  /\ dialogs # <<>> /\ dialogs' \in Seq(SecretDialogs) /\ StackFits' /\ Top \in SecretDialogs /\ Top.kind = kind
           /\ \A k : Shows(dialogs, k) <=> Shows(dialogs', k) \/ kind = k
           /\ kind # "revoke" => \A k : ~Shows(dialogs', k)
           /\ \A i \in 1..Len(dialogs) : (i \in 1..Len(dialogs') /\ dialogs'[i] = dialogs[i]) \/ Top = dialogs[i]
<1>1. Top.kind = kind /\ dialogs' = Popped /\ kind \notin {"none", "secret"}
  BY NoneIsNoChange DEF Confirmed, Operations
<1>2. dialogs # <<>>
  BY <1>1 DEF Top, NoDialog
<1>3. PICK top : top = Top
  OBVIOUS
<1>4. /\ dialogs' \in Seq(SecretDialogs) /\ StackFits' /\ top \in SecretDialogs
      /\ \A k : Shows(dialogs, k) <=> Shows(dialogs', k) \/ top.kind = k
      /\ top.kind \in Operations \cup {"key"} => \A k : ~Shows(dialogs', k)
      /\ \A i \in 1..Len(dialogs) : (i \in 1..Len(dialogs') /\ dialogs'[i] = dialogs[i]) \/ top = dialogs[i]
  BY <1>1, <1>2, <1>3, Parts, StackPopped
<1> QED
  BY <1>1, <1>2, <1>3, <1>4

LEMMA AcceptKeyKeeps ==
    ASSUME SecretsInv, AcceptKey
    PROVE  SecretsInv'
<1>1. /\ Confirmed("key") /\ keyRequest' = FALSE /\ Ask("key", Nil) /\ keyPending' = Slot
      /\ UNCHANGED <<permitted, enrolled, adminGen, opPending, revokePending, secret, closed, existing, setting, listed, cursor>>
  BY DEF AcceptKey, Remote, Listing
<1>2. PICK s, es : s = Slot /\ es = dialogs'
  OBVIOUS
<1>3. /\ s \in Errands /\ s # Nil /\ ~Working(s) /\ Working(s)'
      /\ change' \in [Errands -> SecretChanges \cup {NoChange}]
      /\ change'[s].kind = "key"
      /\ \A u \in Errands : u # s => change'[u] = change[u] /\ (Working(u)' <=> Working(u))
      /\ SecretsOnTheirWay' /\ WorkersAreHonest'
  BY <1>1, <1>2, Parts, AnotherWorks
<1>4. /\ es \in Seq(SecretDialogs) /\ StackFits' /\ Top.kind = "key" /\ Shows(dialogs, "key")
      /\ \A k : ~Shows(es, k)
      /\ \A i \in 1..Len(dialogs) : (i \in 1..Len(es) /\ es[i] = dialogs[i]) \/ Top = dialogs[i]
  BY <1>1, <1>2, ConfirmedStack
<1>5. keyPending = Nil /\ opPending = Nil /\ secret = Nil
  BY <1>4, Parts DEF OneSecret
<1>6. SecretsTypeOK'
  BY <1>1, <1>2, <1>3, <1>4, Parts DEF SecretsTypeOK
<1>7. WorkersAreAwaited'
  BY <1>1, <1>2, <1>3, <1>5, Parts, NoneIsNoChange DEF WorkersAreAwaited
<1>8. OneSecret'
  <2>1. ~Shows(dialogs', "key")
    BY <1>2, <1>4
  <2> QED
    BY <1>1, <1>5, <2>1 DEF OneSecret
<1>9. HeldIsLetGo'
  <2>1. revokePending # Nil => \E t \in Errands : Working(t) /\ change[t].kind \in {"detail", "revoke"} /\ change[t].on = revokePending
    <3>1. \A i \in 1..Len(dialogs) : dialogs[i].kind # "revoke"
      <4>1. DOMAIN es = 1..Len(es) /\ \A i \in 1..Len(es) : FALSE
        <5>1. DOMAIN es = 1..Len(es)
          BY <1>4
        <5>2. \A i \in DOMAIN es : FALSE
          BY <1>4 DEF Shows
        <5> QED
          BY <5>1, <5>2
      <4> QED
        BY <1>4, <4>1
    <3> QED
      BY <3>1, Parts DEF HeldIsLetGo
  <2>2. revokePending # Nil => \E t \in Errands : Working(t)' /\ change'[t].kind \in {"detail", "revoke"} /\ change'[t].on = revokePending
    BY <1>3, <2>1
  <2> QED
    BY <1>1, <2>2 DEF HeldIsLetGo
<1> QED
  BY <1>3, <1>4, <1>6, <1>7, <1>8, <1>9 DEF SecretsInv, Answered

LEMMA AcceptOperationKeeps ==
    ASSUME SecretsInv, NEW kind \in Operations, AcceptOperation(kind)
    PROVE  SecretsInv'
<1>1. /\ Confirmed(kind) /\ OperationOffered(kind) /\ Ask(kind, Nil) /\ opPending' = Slot
      /\ UNCHANGED <<permitted, enrolled, adminGen, keyRequest, keyPending, revokePending, secret, closed, existing, setting, listed, cursor>>
  BY DEF AcceptOperation, Remote, Listing
<1>2. PICK s, es : s = Slot /\ es = dialogs'
  OBVIOUS
<1>3. /\ s \in Errands /\ s # Nil /\ ~Working(s) /\ Working(s)'
      /\ change' \in [Errands -> SecretChanges \cup {NoChange}]
      /\ change'[s].kind = kind
      /\ \A u \in Errands : u # s => change'[u] = change[u] /\ (Working(u)' <=> Working(u))
      /\ SecretsOnTheirWay' /\ WorkersAreHonest'
  BY <1>1, <1>2, Parts, AnotherWorks
<1>0. kind \notin {"key", "revoke", "detail", "secret"}
  BY NoneIsNoChange
<1>4. /\ es \in Seq(SecretDialogs) /\ StackFits' /\ Top.kind = kind
      /\ \A k : ~Shows(es, k)
      /\ \A k : Shows(dialogs, k) <=> kind = k
      /\ \A i \in 1..Len(dialogs) : (i \in 1..Len(es) /\ es[i] = dialogs[i]) \/ Top = dialogs[i]
  <2>1. /\ es \in Seq(SecretDialogs) /\ StackFits' /\ Top.kind = kind
        /\ \A k : Shows(dialogs, k) <=> Shows(es, k) \/ kind = k
        /\ \A k : ~Shows(es, k)
        /\ \A i \in 1..Len(dialogs) : (i \in 1..Len(es) /\ es[i] = dialogs[i]) \/ Top = dialogs[i]
    BY <1>0, <1>1, <1>2, ConfirmedStack
  <2> QED
    BY <2>1
<1>5. /\ opPending = Nil
      /\ GivesSecret(kind) => keyPending = Nil /\ secret = Nil
  BY <1>1 DEF OperationOffered
<1>6. SecretsTypeOK'
  BY <1>1, <1>2, <1>3, <1>4, Parts DEF SecretsTypeOK
<1>7. WorkersAreAwaited'
  BY <1>0, <1>1, <1>2, <1>3, <1>5, Parts DEF WorkersAreAwaited
<1>8. OneSecret'
  <2>1. ~Shows(dialogs', "key")
    BY <1>2, <1>4
  <2> QED
    BY <1>1, <1>2, <1>3, <1>5, <2>1, Parts DEF OneSecret
<1>9. HeldIsLetGo'
  <2>1. revokePending # Nil => \E t \in Errands : Working(t) /\ change[t].kind \in {"detail", "revoke"} /\ change[t].on = revokePending
    <3>1. \A i \in 1..Len(dialogs) : dialogs[i].kind # "revoke"
      <4>1. DOMAIN dialogs = 1..Len(dialogs) /\ ~Shows(dialogs, "revoke")
        BY <1>0, <1>4, Parts
      <4> QED
        BY <4>1 DEF Shows
    <3> QED
      BY <3>1, Parts DEF HeldIsLetGo
  <2>2. revokePending # Nil => \E t \in Errands : Working(t)' /\ change'[t].kind \in {"detail", "revoke"} /\ change'[t].on = revokePending
    BY <1>3, <2>1
  <2>3. ~keyRequest
    BY <1>0, <1>4, Parts DEF HeldIsLetGo
  <2> QED
    BY <1>1, <2>2, <2>3 DEF HeldIsLetGo
<1> QED
  BY <1>3, <1>4, <1>6, <1>7, <1>8, <1>9 DEF SecretsInv, Answered

LEMMA AcceptRevocationKeeps ==
    ASSUME SecretsInv, AcceptRevocation
    PROVE  SecretsInv'
<1>1. /\ Confirmed("revoke") /\ revokePending = Top.on /\ Ask("revoke", revokePending)
      /\ UNCHANGED <<permitted, enrolled, adminGen, keyRequest, keyPending, opPending, revokePending, secret, closed, existing, setting, listed, cursor>>
  BY DEF AcceptRevocation, Remote, Held, Listing
<1>2. PICK s, es : s = Slot /\ es = dialogs'
  OBVIOUS
<1>10. PICK on \in Credentials \cup {Nil} : on = revokePending
  BY Parts
<1>3. /\ s \in Errands /\ s # Nil /\ ~Working(s) /\ Working(s)'
      /\ change' \in [Errands -> SecretChanges \cup {NoChange}]
      /\ change'[s].kind = "revoke" /\ change'[s].on = on
      /\ \A u \in Errands : u # s => change'[u] = change[u] /\ (Working(u)' <=> Working(u))
      /\ SecretsOnTheirWay' /\ WorkersAreHonest'
  <2>1. Ask("revoke", on)
    BY <1>1, <1>10
  <2>2. UNCHANGED <<secret, closed>> /\ UNCHANGED <<setting, existing>> /\ SecretsOnTheirWay
    BY <1>1, Parts
  <2>3. "revoke" \in Operations \cup {"key", "revoke", "detail"}
    OBVIOUS
  <2> QED
    BY <1>2, <2>1, <2>2, <2>3, AnotherWorks
<1>4. /\ es \in Seq(SecretDialogs) /\ StackFits'
      /\ \A k : Shows(dialogs, k) <=> Shows(es, k) \/ k = "revoke"
  BY <1>1, <1>2, ConfirmedStack
<1>6. SecretsTypeOK'
  BY <1>1, <1>2, <1>3, <1>4, Parts DEF SecretsTypeOK
<1>7. WorkersAreAwaited'
  BY <1>1, <1>2, <1>3, Parts, NoneIsNoChange DEF WorkersAreAwaited
<1>5. Shows(es, "key") <=> Shows(dialogs, "key")
  BY <1>4
<1>8. OneSecret'
  <2>1. opPending # Nil => change'[opPending] = change[opPending]
    BY <1>3, Parts DEF WorkersAreAwaited
  <2> QED
    BY <1>1, <1>2, <1>5, <2>1, Parts DEF OneSecret
<1>9. HeldIsLetGo'
  BY <1>1, <1>2, <1>3, <1>5, <1>10, Parts DEF HeldIsLetGo
<1> QED
  BY <1>3, <1>4, <1>6, <1>7, <1>8, <1>9 DEF SecretsInv, Answered

-----------------------------------------------------------------------------
(* The answers *)

\* A worker ends: of its change, only that it was told something is new.
LEMMA EndedHonest ==
    ASSUME SecretsInv, NEW t \in Errands, NEW what, change[t] # NoChange, change[t].step = "answered", Told(t, what),
           \/ what = "nothing"
           \/ what \in {"elsewhere", change[t].result} /\ change[t].kind # "detail",
           UNCHANGED <<existing, setting>>
    PROVE  /\ WorkersAreHonest' /\ Working(t) /\ ~Working(t)'
           /\ change' \in [Errands -> SecretChanges \cup {NoChange}]
           /\ change'[t].kind = change[t].kind /\ change'[t].issued = change[t].issued
           /\ \A u \in Errands : u # t => change'[u] = change[u] /\ (Working(u)' <=> Working(u))
<1>0. PICK b : b = change[t]
  OBVIOUS
<1>1. b \in SecretChanges /\ b # NoChange /\ b.step = "answered" /\ Honest(b) /\ SecretsTypeOK
  BY <1>0, Parts, ChangesAre DEF WorkersAreHonest
<1>2. what \in SecretResults \cup {"nothing", "elsewhere"}
  BY <1>0, <1>1 DEF SecretChanges
<1>3. PICK c : c = [b EXCEPT !.step = "ended", !.told = what]
  OBVIOUS
<1>4. /\ c \in SecretChanges /\ c.kind = b.kind /\ c.on = b.on /\ c.step = "ended" /\ c.sent = b.sent /\ c.reached = b.reached
      /\ c.issued = b.issued /\ c.result = b.result /\ c.told = what
  BY <1>1, <1>2, <1>3 DEF SecretChanges
<1>5. change' = [change EXCEPT ![t] = c]
  BY <1>0, <1>1, <1>3 DEF Told, SecretsTypeOK
<1>6. Honest(c)
  <2>1. SoOf(c, c.result)
    BY <1>1, <1>4 DEF SoOf, Honest
  <2>2. SoOf(c, c.told)
    BY <1>0, <1>4, <2>1 DEF SoOf
  <2> QED
    BY <1>0, <1>1, <1>4, <2>1, <2>2 DEF Honest
<1>7. WorkersAreHonest'
  BY <1>4, <1>5, <1>6, HonestStays, OneMoreHonest, Parts
<1>8. /\ change' \in [Errands -> SecretChanges \cup {NoChange}]
      /\ \A u \in Errands : change'[u] = IF u = t THEN c ELSE change[u]
  BY <1>0, <1>1, <1>4, <1>5, WorkerSteps
<1>9. Working(t) /\ ~Working(t)' /\ \A u \in Errands : u # t => (Working(u)' <=> Working(u))
  BY <1>0, <1>1, <1>4, <1>8 DEF Working
<1> QED
  BY <1>0, <1>4, <1>7, <1>8, <1>9

\* What the reducer does with the secret in an answer.
LEMMA ShownKeeps ==
    ASSUME SecretsInv, NEW t \in Errands, ShowSecret(t), change[t] # NoChange, change[t].issued => secret = Nil
    PROVE  /\ dialogs' \in Seq(SecretDialogs) /\ StackFits' /\ secret' \in Errands \cup {Nil}
           /\ \A k : k # "secret" => (Shows(dialogs', k) <=> Shows(dialogs, k))
           /\ \A i \in 1..Len(dialogs) : i \in 1..Len(dialogs') /\ dialogs'[i] = dialogs[i]
           /\ change[t].issued => secret' = t
           /\ ~change[t].issued => secret' = secret
<1>1. CASE change[t].issued
  <2>1. secret' = t /\ Push(Dialog("secret", Nil)) /\ t # Nil
    BY <1>1, Parts DEF ShowSecret
  <2>2. PICK d \in SecretDialogs : d = Dialog("secret", Nil) /\ d.kind = "secret"
    <3>1. Nil \in Credentials \cup {Nil}
      OBVIOUS
    <3> QED
      BY <3>1, Parts, DialogIs
  <2>3. d.kind \notin Operations \cup {"key"}
    BY <2>2, NoneIsNoChange
  <2>4. /\ dialogs' \in Seq(SecretDialogs) /\ StackFits'
        /\ \A k : Shows(dialogs', k) <=> Shows(dialogs, k) \/ d.kind = k
        /\ \A i \in 1..Len(dialogs) : i \in 1..Len(dialogs') /\ dialogs'[i] = dialogs[i]
    BY <1>1, <2>1, <2>2, <2>3, Parts, StackPushed
  <2> QED
    BY <1>1, <2>1, <2>2, <2>4
<1>2. CASE ~change[t].issued
  <2>1. UNCHANGED <<secret, dialogs>>
    BY <1>2 DEF ShowSecret
  <2>2. StackFits'
    BY <2>1, Parts, StackStays
  <2> QED
    BY <1>2, <2>1, <2>2, Parts
<1> QED
  BY <1>1, <1>2

LEMMA KeyAnsweredKeeps ==
    ASSUME SecretsInv, NEW t \in Errands, KeyAnswered(t)
    PROVE  SecretsInv'
<1>1. /\ change[t] # NoChange /\ change[t].step = "answered" /\ change[t].kind = "key"
      /\ UNCHANGED <<permitted, enrolled, adminGen, keyRequest, opPending, revokePending, closed, existing, setting, listed, cursor>>
  BY DEF KeyAnswered, Answers, Works, Remote, Listing
<1>2. keyPending = t
  <2>1. Working(t)
    BY <1>1 DEF Working
  <2>2. WorkersAreAwaited
    BY Parts
  <2> QED
    BY <1>1, <2>1, <2>2 DEF WorkersAreAwaited
<1>3. keyPending' = Nil /\ Told(t, change[t].result) /\ ShowSecret(t)
  BY <1>2 DEF KeyAnswered
<1>4. PICK what : what = change[t].result
  OBVIOUS
<1>5. /\ WorkersAreHonest' /\ Working(t) /\ ~Working(t)'
      /\ change' \in [Errands -> SecretChanges \cup {NoChange}]
      /\ change'[t].kind = change[t].kind /\ change'[t].issued = change[t].issued
      /\ \A u \in Errands : u # t => change'[u] = change[u] /\ (Working(u)' <=> Working(u))
  BY <1>1, <1>3, <1>4, EndedHonest
<1>6. /\ secret = Nil /\ t # Nil
      /\ opPending # Nil => ~GivesSecret(change[opPending].kind)
      /\ ~Shows(dialogs, "key")
  BY <1>2, Parts DEF OneSecret
<1>7. PICK es : es = dialogs'
  OBVIOUS
<1>8. /\ es \in Seq(SecretDialogs) /\ StackFits' /\ secret' \in Errands \cup {Nil}
      /\ \A k : k # "secret" => (Shows(es, k) <=> Shows(dialogs, k))
      /\ \A i \in 1..Len(dialogs) : i \in 1..Len(es) /\ es[i] = dialogs[i]
      /\ change[t].issued => secret' = t
      /\ ~change[t].issued => secret' = secret
  BY <1>1, <1>3, <1>6, <1>7, ShownKeeps
<1>9. SecretsTypeOK'
  BY <1>1, <1>3, <1>5, <1>7, <1>8, Parts DEF SecretsTypeOK
<1>10. WorkersAreAwaited'
  BY <1>1, <1>2, <1>3, <1>5, Parts, NoneIsNoChange DEF WorkersAreAwaited
<1>11. OneSecret'
  <2>1. opPending # Nil => change'[opPending] = change[opPending]
    BY <1>1, <1>5, Parts, NoneIsNoChange DEF WorkersAreAwaited
  <2> QED
    BY <1>1, <1>3, <1>6, <1>7, <1>8, <2>1 DEF OneSecret
<1>12. SecretsOnTheirWay'
  BY <1>1, <1>5, <1>6, <1>8, Parts DEF SecretsOnTheirWay
<1>13. HeldIsLetGo'
  BY <1>1, <1>5, <1>7, <1>8, Parts DEF HeldIsLetGo
<1> QED
  BY <1>5, <1>8, <1>9, <1>10, <1>11, <1>12, <1>13 DEF SecretsInv, Answered

LEMMA OperationAnsweredKeeps ==
    ASSUME SecretsInv, NEW t \in Errands, OperationAnswered(t)
    PROVE  SecretsInv'
<1>1. /\ change[t] # NoChange /\ change[t].step = "answered" /\ change[t].kind \in Operations /\ ShowSecret(t)
      /\ UNCHANGED <<permitted, enrolled, keyRequest, keyPending, revokePending, closed, existing, setting, listed, cursor>>
  BY DEF OperationAnswered, Answers, Works, Remote, Listing
<1>0. change[t].kind \notin {"key", "revoke", "detail", "secret"}
  BY <1>1, NoneIsNoChange
<1>2. opPending = t
  <2>1. Working(t)
    BY <1>1 DEF Working
  <2>2. WorkersAreAwaited
    BY Parts
  <2> QED
    BY <1>1, <2>1, <2>2 DEF WorkersAreAwaited
<1>3. opPending' = Nil /\ adminGen' \in {adminGen, adminGen + 1}
  BY <1>2 DEF OperationAnswered
<1>4. PICK what \in {"elsewhere", change[t].result} : Told(t, what)
  BY DEF OperationAnswered
<1>5. /\ WorkersAreHonest' /\ Working(t) /\ ~Working(t)'
      /\ change' \in [Errands -> SecretChanges \cup {NoChange}]
      /\ change'[t].kind = change[t].kind /\ change'[t].issued = change[t].issued
      /\ \A u \in Errands : u # t => change'[u] = change[u] /\ (Working(u)' <=> Working(u))
  BY <1>0, <1>1, <1>4, EndedHonest
<1>6. /\ t # Nil /\ ~Shows(dialogs, "key")
      /\ GivesSecret(change[t].kind) => secret = Nil /\ keyPending = Nil
      /\ change[t].issued => GivesSecret(change[t].kind)
      /\ keyPending # Nil => secret = Nil
  BY <1>1, <1>2, Parts DEF OneSecret, SecretsOnTheirWay
<1>7. PICK es : es = dialogs'
  OBVIOUS
<1>8. /\ es \in Seq(SecretDialogs) /\ StackFits' /\ secret' \in Errands \cup {Nil}
      /\ \A k : k # "secret" => (Shows(es, k) <=> Shows(dialogs, k))
      /\ \A i \in 1..Len(dialogs) : i \in 1..Len(es) /\ es[i] = dialogs[i]
      /\ change[t].issued => secret' = t
      /\ ~change[t].issued => secret' = secret
  BY <1>1, <1>6, <1>7, ShownKeeps
<1>9. SecretsTypeOK'
  BY <1>1, <1>3, <1>5, <1>7, <1>8, Parts DEF SecretsTypeOK
<1>10. WorkersAreAwaited'
  BY <1>0, <1>1, <1>2, <1>3, <1>5, Parts, NoneIsNoChange DEF WorkersAreAwaited
<1>11. OneSecret'
  BY <1>1, <1>3, <1>6, <1>7, <1>8 DEF OneSecret
<1>12. SecretsOnTheirWay'
  BY <1>1, <1>5, <1>6, <1>8, Parts DEF SecretsOnTheirWay
<1>13. HeldIsLetGo'
  BY <1>0, <1>1, <1>5, <1>7, <1>8, Parts DEF HeldIsLetGo
<1> QED
  BY <1>5, <1>8, <1>9, <1>10, <1>11, <1>12, <1>13 DEF SecretsInv, Answered

LEMMA RevocationAnsweredKeeps ==
    ASSUME SecretsInv, NEW t \in Errands, RevocationAnswered(t)
    PROVE  SecretsInv'
<1>1. /\ change[t] # NoChange /\ change[t].step = "answered" /\ change[t].kind = "revoke"
      /\ UNCHANGED <<permitted, dialogs, keyPending, opPending, secret, closed, existing, setting, listed, cursor>>
  BY DEF RevocationAnswered, Answers, Works, Remote, Listing
<1>2. PICK what : /\ Told(t, what)
                  /\ what = "nothing" \/ what = change[t].result
  BY DEF RevocationAnswered
<1>3. /\ revokePending' = IF revokePending = change[t].on THEN Nil ELSE revokePending
      /\ \/ UNCHANGED <<enrolled, adminGen, keyRequest>>
         \/ enrolled' = FALSE /\ adminGen' = adminGen + 1 /\ keyRequest' = FALSE
  BY DEF RevocationAnswered, Disconnect
<1>5. /\ WorkersAreHonest' /\ Working(t) /\ ~Working(t)'
      /\ change' \in [Errands -> SecretChanges \cup {NoChange}]
      /\ change'[t].kind = change[t].kind /\ change'[t].issued = change[t].issued
      /\ \A u \in Errands : u # t => change'[u] = change[u] /\ (Working(u)' <=> Working(u))
  BY <1>1, <1>2, EndedHonest
<1>6. \A u \in Errands : change'[u].kind = change[u].kind
  BY <1>5
<1>9. SecretsTypeOK'
  BY <1>1, <1>3, <1>5, Parts DEF SecretsTypeOK
<1>10. WorkersAreAwaited'
  BY <1>1, <1>5, Parts, NoneIsNoChange DEF WorkersAreAwaited
<1>11. OneSecret' /\ StackFits'
  BY <1>1, <1>6, Parts, StackStays DEF OneSecret, Shows
<1>12. SecretsOnTheirWay'
  <2>1. ~change[t].issued
    BY <1>1, Parts DEF SecretsOnTheirWay, GivesSecret
  <2> QED
    BY <1>1, <1>5, <2>1, Parts DEF SecretsOnTheirWay
<1>13. HeldIsLetGo'
  BY <1>1, <1>3, <1>5, Parts DEF HeldIsLetGo, Shows
<1> QED
  BY <1>5, <1>9, <1>10, <1>11, <1>12, <1>13 DEF SecretsInv, Answered

LEMMA DetailAnsweredKeeps ==
    ASSUME SecretsInv, NEW t \in Errands, DetailAnswered(t)
    PROVE  SecretsInv'
<1>1. /\ change[t] # NoChange /\ change[t].step = "answered" /\ change[t].kind = "detail" /\ Told(t, "nothing")
      /\ UNCHANGED <<permitted, enrolled, adminGen, keyRequest, keyPending, opPending, secret, closed, existing, setting, listed, cursor>>
  BY DEF DetailAnswered, Answers, Works, Remote, Listing
<1>2. change[t] \in SecretChanges
  BY <1>1, Parts, ChangesAre
<1>3. PICK on \in Credentials \cup {Nil} : on = change[t].on
  BY <1>2 DEF SecretChanges
<1>4. PICK es : es = dialogs'
  OBVIOUS
<1>5. /\ WorkersAreHonest' /\ Working(t) /\ ~Working(t)'
      /\ change' \in [Errands -> SecretChanges \cup {NoChange}]
      /\ change'[t].kind = change[t].kind /\ change'[t].issued = change[t].issued
      /\ \A u \in Errands : u # t => change'[u] = change[u] /\ (Working(u)' <=> Working(u))
  BY <1>1, EndedHonest
<1>6. \A u \in Errands : change'[u].kind = change[u].kind
  BY <1>5
<1>7. /\ es \in Seq(SecretDialogs) /\ StackFits'
      /\ \A k : k # "revoke" => (Shows(es, k) <=> Shows(dialogs, k))
      /\ \A i \in 1..Len(dialogs) : i \in 1..Len(es) /\ es[i] = dialogs[i]
      /\ \/ revokePending' = on /\ revokePending = on /\ \E i \in 1..Len(es) : es[i].kind = "revoke" /\ es[i].on = on
         \/ revokePending' = IF revokePending = on THEN Nil ELSE revokePending
  <2>1. CASE revokePending = on /\ change[t].result = "there"
    <3>1. Push(Dialog("revoke", on)) /\ UNCHANGED revokePending
      BY <1>3, <2>1 DEF DetailAnswered
    <3>2. PICK d \in SecretDialogs : d = Dialog("revoke", on) /\ d.kind = "revoke" /\ d.on = on
      <4>1. adminGen \in Nat /\ "revoke" \in Operations \cup {"key", "revoke", "secret"}
        BY Parts
      <4> QED
        BY <4>1, DialogIs
    <3>3. d.kind \notin Operations \cup {"key", "secret"}
      BY <3>2, NoneIsNoChange
    <3>4. /\ dialogs' \in Seq(SecretDialogs) /\ StackFits'
          /\ \A k : Shows(dialogs', k) <=> Shows(dialogs, k) \/ d.kind = k
          /\ \A i \in 1..Len(dialogs) : i \in 1..Len(dialogs') /\ dialogs'[i] = dialogs[i]
          /\ \E i \in 1..Len(dialogs') : dialogs'[i] = d
      BY <1>1, <3>1, <3>2, <3>3, Parts, StackPushed
    <3> QED
      BY <1>4, <2>1, <3>1, <3>2, <3>4
  <2>2. CASE ~(revokePending = on /\ change[t].result = "there")
    <3>1. revokePending' = (IF revokePending = on THEN Nil ELSE revokePending) /\ UNCHANGED dialogs
      BY <1>3, <2>2 DEF DetailAnswered
    <3> QED
      BY <1>1, <1>4, <3>1, Parts, StackStays
  <2> QED
    BY <2>1, <2>2
<1>9. SecretsTypeOK'
  BY <1>1, <1>4, <1>5, <1>7, Parts DEF SecretsTypeOK
<1>10. WorkersAreAwaited'
  BY <1>1, <1>5, Parts, NoneIsNoChange DEF WorkersAreAwaited
<1>11. OneSecret'
  BY <1>1, <1>4, <1>6, <1>7, Parts DEF OneSecret
<1>12. SecretsOnTheirWay'
  <2>1. ~change[t].issued
    BY <1>1, Parts DEF SecretsOnTheirWay, GivesSecret
  <2> QED
    BY <1>1, <1>5, <2>1, Parts DEF SecretsOnTheirWay
<1>13. HeldIsLetGo'
  BY <1>1, <1>3, <1>4, <1>5, <1>7, Parts DEF HeldIsLetGo
<1> QED
  BY <1>5, <1>7, <1>9, <1>10, <1>11, <1>12, <1>13 DEF SecretsInv, Answered

-----------------------------------------------------------------------------
(* The invariant *)

LEMMA WorkersKeep ==
    ASSUME SecretsInv, NEW t \in Errands,
           Accepted(t) \/ Refused(t) \/ AnswerLost(t) \/ AnswerUnread(t) \/ VerifyChange(t) \/ ReadDetail(t)
    PROVE  SecretsInv'
<1>1. WorkersAreHonest' /\ \E c : Learns(t, c)
  BY AcceptedHonest, LostHonest, VerifiedHonest, DetailHonest
<1>2. setting \in BOOLEAN /\ existing \subseteq Credentials
  BY Parts DEF SecretsTypeOK
<1>3. WorkerOnly
  BY DEF Accepted, Refused, AnswerLost, AnswerUnread, VerifyChange, ReadDetail
<1>4. permitted' = permitted \/ Allow("faults")
  BY DEF Accepted, Refused, AnswerLost, AnswerUnread, VerifyChange, ReadDetail
<1>5. permitted' \in SecretAllowances
  BY <1>4, Parts, AllowanceFits
<1>6. setting' \in BOOLEAN /\ existing' \subseteq existing
  <2>1. TakesEffect(change[t]) \/ Remote
    BY DEF Accepted, Refused, AnswerLost, AnswerUnread, VerifyChange, ReadDetail
  <2>2. CASE TakesEffect(change[t])
    <3>1. setting' \in BOOLEAN
      BY <2>2 DEF TakesEffect
    <3>2. existing' \subseteq existing
      BY <2>2 DEF TakesEffect
    <3> QED
      BY <3>1, <3>2
  <2> QED
    BY <1>2, <2>1, <2>2 DEF Remote
<1> QED
  BY <1>1, <1>3, <1>5, <1>6, WorkerKeeps DEF SecretsInv

LEMMA SecretsInvInit == SecretsInit => SecretsInv
<1> SUFFICES ASSUME SecretsInit PROVE SecretsInv
  OBVIOUS
<1>1. (CHOOSE c \in Credentials : TRUE) \in Credentials
  BY SecretsAssumption
<1>2. SecretsTypeOK
  <2>1. cursor \in Credentials
    BY <1>1 DEF SecretsInit
  <2>2. permitted \in SecretAllowances
    BY SecretsAssumption DEF SecretsInit
  <2>3. change \in [Errands -> SecretChanges \cup {NoChange}]
    BY DEF SecretsInit
  <2>4. dialogs \in Seq(SecretDialogs)
    BY DEF SecretsInit
  <2> QED
    BY <2>1, <2>2, <2>3, <2>4 DEF SecretsInit, SecretsTypeOK
<1>3. Answered
  <2>1. dialogs = <<>> /\ DOMAIN dialogs = {} /\ Len(dialogs) = 0 /\ 1..Len(dialogs) = {}
    BY DEF SecretsInit
  <2> QED
    BY <2>1 DEF SecretsInit, Answered, WorkersAreAwaited, OneSecret, StackFits, SecretsOnTheirWay, HeldIsLetGo, Working, Shows
<1>4. WorkersAreHonest
  BY DEF SecretsInit, WorkersAreHonest
<1> QED
  BY <1>2, <1>3, <1>4 DEF SecretsInv

LEMMA SecretsInvNext == SecretsInv /\ [SecretsNext]_secretVars => SecretsInv'
<1> SUFFICES ASSUME SecretsInv, [SecretsNext]_secretVars PROVE SecretsInv'
  OBVIOUS
<1>1. CASE UNCHANGED secretVars
  <2>1. UNCHANGED <<permitted, enrolled, adminGen, dialogs, keyRequest, keyPending, opPending, revokePending, secret, listed, cursor, change, existing, setting, closed>>
    BY <1>1 DEF secretVars
  <2> QED
    BY <2>1, Parts, StillKeeps DEF SecretsTypeOK
<1>2. CASE ReviewKey \/ ReviewRevocation \/ Select \/ Dismiss \/ AcceptKey \/ AcceptRevocation \/ SwitchProfileAway \/ Relist
  BY <1>2, ReviewKeyKeeps, ReviewRevocationKeeps, LooksKeep, DismissKeeps, AcceptKeyKeeps, AcceptRevocationKeeps
<1>3. ASSUME NEW k \in Operations, ReviewOperation(k) \/ AcceptOperation(k)
      PROVE  SecretsInv'
  BY <1>3, ReviewOperationKeeps, AcceptOperationKeeps
<1>4. ASSUME NEW t \in Errands, Accepted(t) \/ Refused(t) \/ AnswerLost(t) \/ AnswerUnread(t) \/ VerifyChange(t) \/ ReadDetail(t)
      PROVE  SecretsInv'
  BY <1>4, WorkersKeep
<1>5. ASSUME NEW t \in Errands, KeyAnswered(t) \/ OperationAnswered(t) \/ DetailAnswered(t) \/ RevocationAnswered(t)
      PROVE  SecretsInv'
  BY <1>5, KeyAnsweredKeeps, OperationAnsweredKeeps, DetailAnsweredKeeps, RevocationAnsweredKeeps
<1> QED
  BY <1>1, <1>2, <1>3, <1>4, <1>5 DEF SecretsNext

\* What is open, held, awaited and under way keeps its type, whatever is asked
\* for, lost and closed, in any order.
THEOREM SecretsTypeCorrect == SecretsSpec => []SecretsTypeOK
<1>1. SecretsInv => SecretsTypeOK
  BY DEF SecretsInv
<1> QED
  BY <1>1, SecretsInvInit, SecretsInvNext, PTL DEF SecretsSpec

\* The reducers of auth keys, operational changes and revocations: every secret
\* that came reaches the user, what he is told of a change is so, and at rest
\* nothing is held that forbids the next.
THEOREM AskedIsSettled == SecretsSpec => []WhatIsAskedIsSettled
<1>1. SecretsInv => WhatIsAskedIsSettled
  <2> SUFFICES ASSUME SecretsInv PROVE WhatIsAskedIsSettled
    OBVIOUS
  <2>1. SecretsReachTheUser
    <3>1. ASSUME NEW t \in Errands, change[t] # NoChange, change[t].issued
          PROVE  t = secret \/ t \in closed \/ change[t].step \in {"verify", "answered"}
      <4>1. change[t].step \in {"write", "verify", "answered", "ended"} /\ change[t].step # "write"
        BY <3>1, Parts, ChangesAre DEF SecretChanges, WorkersAreHonest, Honest
      <4> QED
        BY <3>1, <4>1, Parts DEF SecretsOnTheirWay, Working
    <3> QED
      BY <3>1, Parts DEF SecretsReachTheUser, StackFits
  <2>2. AnswersAreTrue
    <3> SUFFICES ASSUME NEW t \in Errands, change[t] # NoChange
                 PROVE  /\ change[t].told \in {"Verified", "Unverified", "Created"} =>
                               CASE GivesSecret(change[t].kind) -> change[t].issued
                                 [] change[t].kind = "edit"     -> setting
                                 [] change[t].kind = "revoke"   -> change[t].on \notin existing
                                 [] OTHER                       -> change[t].reached
                        /\ change[t].told = "Failed" /\ change[t].kind # "key" /\ change[t].sent # "unread" => ~change[t].reached
      BY DEF AnswersAreTrue
    <3>1. PICK c : c = change[t]
      OBVIOUS
    <3>2. c \in SecretChanges /\ SoOf(c, c.told)
      BY <3>1, Parts, ChangesAre DEF WorkersAreHonest, Honest
    <3>3. ASSUME c.told \in {"Verified", "Unverified", "Created"}
          PROVE  CASE GivesSecret(c.kind) -> c.issued
                   [] c.kind = "edit"     -> setting
                   [] c.kind = "revoke"   -> c.on \notin existing
                   [] OTHER               -> c.reached
      <4>1. CASE GivesSecret(c.kind)
        BY <3>2, <3>3, <4>1 DEF SoOf, GivesSecret
      <4>2. CASE c.kind = "edit"
        BY <3>2, <3>3, <4>2 DEF SoOf, GivesSecret
      <4>3. CASE c.kind = "revoke"
        BY <3>2, <3>3, <4>3 DEF SoOf, GivesSecret
      <4>4. CASE ~GivesSecret(c.kind) /\ c.kind # "edit" /\ c.kind # "revoke"
        <5>1. c.kind \in {"test", "detail"}
          BY <3>2, <4>4 DEF SecretChanges, GivesSecret, Operations
        <5>2. c.reached
          BY <3>2, <3>3, <5>1 DEF SoOf
        <5> QED
          BY <4>4, <5>2
      <4> QED
        BY <4>1, <4>2, <4>3, <4>4
    <3>4. c.told = "Failed" /\ c.kind # "key" /\ c.sent # "unread" => ~c.reached
      BY <3>2 DEF SoOf
    <3> QED
      BY <3>1, <3>3, <3>4
  <2>3. NothingIsHeld
    <3>1. ASSUME dialogs = <<>>, \A t \in Errands : change[t] = NoChange \/ change[t].step = "ended"
          PROVE  CanSwitch /\ ~keyRequest
      <4>1. DOMAIN dialogs = {} /\ 1..Len(dialogs) = {}
        BY <3>1
      <4>2. \A t \in Errands : ~Working(t)
        BY <3>1 DEF Working
      <4>3. keyPending = Nil /\ opPending = Nil
        BY <4>2, Parts DEF WorkersAreAwaited
      <4>4. secret = Nil
        BY <4>1, Parts DEF StackFits, Shows
      <4>5. revokePending = Nil /\ ~keyRequest
        BY <4>1, <4>2, Parts DEF HeldIsLetGo, Shows
      <4> QED
        BY <4>3, <4>4, <4>5 DEF CanSwitch
    <3> QED
      BY <3>1 DEF NothingIsHeld
  <2> QED
    BY <2>1, <2>2, <2>3 DEF WhatIsAskedIsSettled
<1> QED
  BY <1>1, SecretsInvInit, SecretsInvNext, PTL DEF SecretsSpec

-----------------------------------------------------------------------------
(* Changes *)

\* Every kind sets one field, reads it again at the end and knows what verifies
\* it; none sets the name a machine has of its own.
ShapeFits(shape) ==
    /\ shape.field \in ChangeFields /\ shape.field \in shape.refresh /\ shape.field # "hostname"
    /\ shape.wanted \subseteq Values
    /\ shape.field = "present" => shape.wanted = {No}
    /\ Len(shape.reads) \in Nat

LEMMA DeviceShape ==
    ASSUME NEW field \in DeviceFields \ {"hostname"}, NEW wanted \in SUBSET Values, NEW depends
    PROVE  ShapeFits(OnDevice(field, wanted, depends))
BY DEF ShapeFits, OnDevice, Shape, ChangeFields, DeviceFields, RouteFields

LEMMA UserShape ==
    ASSUME NEW field \in UserFields, NEW wanted \in SUBSET Values, NEW depends
    PROVE  ShapeFits(OnUser(field, wanted, depends))
BY DEF ShapeFits, OnUser, Shape, ChangeFields, UserFields

LEMMA DnsShape ==
    ASSUME NEW field \in DnsFields, NEW reads, NEW refresh, field \in refresh
    PROVE  ShapeFits(OnDns(field, reads, refresh))
BY DEF ShapeFits, OnDns, Shape, ChangeFields, DnsFields, Values

LEMMA ShapesFit == \A k \in DOMAIN ChangeKinds : ShapeFits(ChangeKinds[k])
<1> SUFFICES ASSUME NEW k \in DOMAIN ChangeKinds PROVE ShapeFits(ChangeKinds[k])
  OBVIOUS
<1>1. CASE k \in {"DeviceRename", "DeviceTags", "DeviceApproval", "DeviceKeyExpiry", "DeviceExpireNow"}
  BY <1>1, DeviceShape DEF ChangeKinds, DeviceFields, Values
<1>2. CASE k \in {"DnsNameservers", "DnsPreferences", "DnsSearchPaths", "DnsSplitMapping"}
  BY <1>2, DnsShape DEF ChangeKinds, DnsFields
<1>3. CASE k \in {"UserApproval", "UserRole", "UserSuspend", "UserRestore"}
  BY <1>3, UserShape DEF ChangeKinds, UserFields, Values
<1>4. CASE k = "DeviceDelete"
  BY <1>4 DEF ChangeKinds, ShapeFits, Shape, ChangeFields, Values
<1>5. CASE k = "DeviceRoutes"
  BY <1>5 DEF ChangeKinds, ShapeFits, Shape, ChangeFields, DeviceFields, RouteFields, Values
<1>6. CASE k = "UserDelete"
  BY <1>6, UserShape DEF ChangeKinds, ShapeFits, OnUser, Shape, ChangeFields, Values
<1> QED
  BY <1>1, <1>2, <1>3, <1>4, <1>5, <1>6 DEF ChangeKinds

-----------------------------------------------------------------------------
(* Type correctness *)

LEMMA Spent ==
    ASSUME ChangeTypeOK
    PROVE  /\ Mischance => /\ chance' \in ChangeRecords /\ chance'.kind = chance.kind /\ chance'.there = chance.there
                           /\ chance'.foreign = chance.foreign
           /\ chance.forms > 0 /\ chance' = [chance EXCEPT !.forms = @ - 1] =>
                  /\ chance' \in ChangeRecords /\ chance'.kind = chance.kind /\ chance'.there = chance.there
                  /\ chance'.foreign = chance.foreign
           /\ chance' = [chance EXCEPT !.cancels = 0] =>
                  /\ chance' \in ChangeRecords /\ chance'.kind = chance.kind /\ chance'.there = chance.there
                  /\ chance'.foreign = chance.foreign
           /\ chance' = [chance EXCEPT !.foreign = {}] =>
                  /\ chance' \in ChangeRecords /\ chance'.kind = chance.kind /\ chance'.there = chance.there
                  /\ chance'.foreign = {}
<1>1. chance \in ChangeRecords
  BY DEF ChangeTypeOK
<1>2. ASSUME Mischance
      PROVE  /\ chance' \in ChangeRecords /\ chance'.kind = chance.kind /\ chance'.there = chance.there
             /\ chance'.foreign = chance.foreign
  <2>1. PICK less \in Nat : less = chance.faults - 1
    BY <1>1, <1>2 DEF ChangeRecords, Mischance
  <2>2. chance' = [chance EXCEPT !.faults = less]
    BY <1>2, <2>1 DEF Mischance
  <2> QED
    BY <1>1, <2>2 DEF ChangeRecords
<1>3. ASSUME chance.forms > 0, chance' = [chance EXCEPT !.forms = @ - 1]
      PROVE  /\ chance' \in ChangeRecords /\ chance'.kind = chance.kind /\ chance'.there = chance.there
             /\ chance'.foreign = chance.foreign
  <2>1. PICK less \in Nat : less = chance.forms - 1
    BY <1>1, <1>3 DEF ChangeRecords
  <2>2. chance' = [chance EXCEPT !.forms = less]
    BY <1>3, <2>1
  <2> QED
    BY <1>1, <2>2 DEF ChangeRecords
<1> QED
  BY <1>1, <1>2, <1>3 DEF ChangeRecords

\* What may still happen becomes less; what the change is stays.
LEMMA StaysTheChange ==
    ASSUME ChangeTypeOK, [ChangeNext]_changeVars
    PROVE  /\ chance' \in ChangeRecords /\ chance'.kind = chance.kind /\ chance'.there = chance.there
           /\ chance'.foreign = chance.foreign \/ chance'.foreign = {}
           /\ ShapeFits(Shaped) /\ Shaped' = Shaped /\ Field' = Field
<1>1. \/ chance' = chance \/ Mischance \/ (chance.forms > 0 /\ chance' = [chance EXCEPT !.forms = @ - 1])
      \/ chance' = [chance EXCEPT !.cancels = 0] \/ chance' = [chance EXCEPT !.foreign = {}]
  <2>1. CASE UNCHANGED changeVars
    BY <2>1 DEF changeVars
  <2>2. CASE ChangeNext
    BY <2>2 DEF ChangeNext, SomebodyChanges, Applies, Refuses, RelistUnderForm, AcceptForm, Fetch, FetchFails, Compare, Confirm,
                Unsent, Dispatch, Replies, Deadline, VerifyOnce, Refetch
  <2> QED
    BY <2>1, <2>2
<1>2. /\ chance' \in ChangeRecords /\ chance'.kind = chance.kind /\ chance'.there = chance.there
      /\ chance'.foreign = chance.foreign \/ chance'.foreign = {}
  BY <1>1, Spent DEF ChangeTypeOK
<1>3. ShapeFits(Shaped)
  BY ShapesFit DEF Shaped, ChangeTypeOK, ChangeRecords
<1> QED
  BY <1>2, <1>3 DEF Shaped, Field

\* Who acts: the tailnet, a worker, or neither.
LEMMA WhoActs ==
    ASSUME [ChangeNext]_changeVars
    PROVE  \/ \E f \in ChangeFields : SomebodyChanges(f)
           \/ Applies \/ Refuses \/ Dispatch
           \/ /\ Unsent \/ Replies \/ Deadline \/ VerifyOnce
              /\ UNCHANGED <<there, inPlace, disturbed, lists, base, read, fresh>>
           \/ UNCHANGED <<there, arriving, inPlace, disturbed, reply, late, concluded>>
<1>1. CASE UNCHANGED changeVars
  BY <1>1 DEF changeVars
<1>2. CASE RelistUnderForm \/ AcceptForm \/ Fetch \/ FetchFails \/ Compare \/ Confirm \/ Refetch
  BY <1>2 DEF RelistUnderForm, AcceptForm, Fetch, FetchFails, Compare, Confirm, Refetch, World
<1>3. CASE Unsent \/ Replies \/ Deadline \/ VerifyOnce
  BY <1>3 DEF Unsent, Replies, Deadline, VerifyOnce, ByTale
<1> QED
  BY <1>1, <1>2, <1>3 DEF ChangeNext

LEMMA TypesOfTailnet ==
    ASSUME ChangeTypeOK, Field \in ChangeFields, Shaped.wanted \subseteq Values
    PROVE  /\ \A f \in ChangeFields, v \in Values : [there EXCEPT ![f] = v] \in TailnetStates
           /\ Refreshed(there) \in TailnetStates
           /\ [f \in ChangeFields |-> IF f \in Shaped.reads[read + 1] THEN there[f] ELSE fresh[f]] \in TailnetStates
BY DEF ChangeTypeOK, TailnetStates, Refreshed

LEMMA TypesStay ==
    ASSUME ChangeTypeOK, [ChangeNext]_changeVars
    PROVE  ChangeTypeOK'
<1>1. /\ chance' \in ChangeRecords /\ Shaped' = Shaped /\ Field' = Field
      /\ Field \in ChangeFields /\ Shaped.wanted \subseteq Values /\ Len(Shaped.reads) \in Nat
  BY StaysTheChange DEF ShapeFits, Field
<1>2. /\ \A f \in ChangeFields, v \in Values : [there EXCEPT ![f] = v] \in TailnetStates
      /\ Refreshed(there) \in TailnetStates
      /\ [f \in ChangeFields |-> IF f \in Shaped.reads[read + 1] THEN there[f] ELSE fresh[f]] \in TailnetStates
  BY <1>1, TypesOfTailnet
<1>3. inPlace' \in BOOLEAN /\ disturbed' \in BOOLEAN /\ late' \in BOOLEAN
  <2>1. late' = late \/ late' = TRUE
    BY DEF ChangeNext, changeVars, SomebodyChanges, Applies, Refuses, RelistUnderForm, AcceptForm, Fetch, FetchFails, Compare, Confirm,
           Unsent, Dispatch, Replies, Deadline, VerifyOnce, Refetch, Tale
  <2>2. disturbed' = disturbed \/ \E f \in ChangeFields : SomebodyChanges(f)
    BY DEF ChangeNext, changeVars, Applies, Refuses, RelistUnderForm, AcceptForm, Fetch, FetchFails, Compare, Confirm,
           Unsent, Dispatch, Replies, Deadline, VerifyOnce, Refetch, World, ByTale
  <2>3. disturbed' \in BOOLEAN
    BY <2>2 DEF SomebodyChanges, ChangeTypeOK
  <2>4. \/ inPlace' = inPlace \/ inPlace' = Is(there)
        \/ \E new : inPlace' = (inPlace \/ (arriving' # "none" /\ new[Field] \in Shaped.wanted))
    BY WhoActs DEF SomebodyChanges, Applies, Refuses, Dispatch, Noted
  <2>5. inPlace' \in BOOLEAN
    <3>1. inPlace \in BOOLEAN
      BY DEF ChangeTypeOK
    <3>2. Is(there) \in BOOLEAN
      BY DEF Is
    <3>3. \A new : (inPlace \/ (arriving' # "none" /\ new[Field] \in Shaped.wanted)) \in BOOLEAN
      OBVIOUS
    <3> QED
      BY <2>4, <3>1, <3>2, <3>3
  <2> QED
    BY <2>1, <2>3, <2>5 DEF ChangeTypeOK
<1>4. there' \in TailnetStates
  <2>1. there' = there \/ \E f \in ChangeFields, v \in Values : there' = [there EXCEPT ![f] = v]
    <3>1. CASE \E f \in ChangeFields : SomebodyChanges(f)
      <4>1. PICK f \in ChangeFields : SomebodyChanges(f)
        BY <3>1
      <4>2. PICK v \in Values : there' = [there EXCEPT ![f] = v]
        BY <4>1 DEF SomebodyChanges, Values
      <4> QED
        BY <4>2
    <3>2. CASE Applies
      <4>1. PICK v \in Shaped.wanted : there' = [there EXCEPT ![Field] = v]
        BY <3>2 DEF Applies
      <4> QED
        BY <1>1, <4>1
    <3>3. (\E f \in ChangeFields : SomebodyChanges(f)) \/ Applies \/ there' = there
      BY WhoActs DEF Refuses, Dispatch
    <3> QED
      BY <3>1, <3>2, <3>3
  <2>2. there \in TailnetStates
    BY DEF ChangeTypeOK
  <2>3. ASSUME NEW f \in ChangeFields, NEW v \in Values, there' = [there EXCEPT ![f] = v]
        PROVE  there' \in TailnetStates
    BY <1>2, <2>3
  <2> QED
    BY <2>1, <2>2, <2>3
<1>5. lists' \in {lists, there, Refreshed(there)} /\ base' \in {base, lists}
      /\ fresh' \in {fresh, [f \in ChangeFields |-> IF f \in Shaped.reads[read + 1] THEN there[f] ELSE fresh[f]]}
  BY DEF ChangeNext, changeVars, SomebodyChanges, Applies, Refuses, RelistUnderForm, AcceptForm, Fetch, FetchFails, Compare, Confirm,
         Unsent, Dispatch, Replies, Deadline, VerifyOnce, Refetch, World, ByTale, Tale
<1>6. lists' \in TailnetStates /\ base' \in TailnetStates /\ fresh' \in TailnetStates
  BY <1>2, <1>5 DEF ChangeTypeOK
<1>7. read' \in 0..Len(Shaped.reads)
  <2>1. read' = read \/ read' = 0 \/ (read < Len(Shaped.reads) /\ read' = read + 1)
    BY DEF ChangeNext, changeVars, SomebodyChanges, Applies, Refuses, RelistUnderForm, AcceptForm, Fetch, FetchFails, Compare, Confirm,
           Unsent, Dispatch, Replies, Deadline, VerifyOnce, Refetch, World, ByTale, Tale
  <2>2. read \in 0..Len(Shaped.reads)
    BY DEF ChangeTypeOK
  <2> QED
    BY <1>1, <2>1, <2>2
<1>8. phase' \in {"form", "reading", "review", "token", "sent", "told", "over", "stale"}
  BY DEF ChangeTypeOK, ChangeNext, changeVars, SomebodyChanges, Applies, Refuses, RelistUnderForm, AcceptForm, Fetch, FetchFails, Compare,
         Confirm, Unsent, Dispatch, Replies, Deadline, VerifyOnce, Refetch, World, ByTale, Tale, Proceeds, Says, Concludes
<1>9. /\ arriving' \in {"none", "sent", "accepted", "applied", "refused"}
      /\ reply' \in {"none", "accepted", "unreadable", "refused", "timeout", "server failure", "rate limited", "cancelled"}
  BY DEF ChangeTypeOK, ChangeNext, changeVars, SomebodyChanges, Applies, Refuses, RelistUnderForm, AcceptForm, Fetch, FetchFails, Compare,
         Confirm, Unsent, Dispatch, Replies, Deadline, VerifyOnce, Refetch, World, ByTale, Tale
<1>10. concluded' \in ChangeVerdicts
  <2>1. concluded' = concluded \/ Unsent \/ VerifyOnce
    BY WhoActs DEF SomebodyChanges, Applies, Refuses, Dispatch, Replies, Deadline, Tale
  <2>2. concluded \in ChangeVerdicts
    BY DEF ChangeTypeOK
  <2>3. Unsent => concluded' \in ChangeVerdicts
    BY DEF Unsent, Says, ChangeVerdicts
  <2>4. \A seen \in {"verified", "mismatch", "error"} : Outcome(seen) \in ChangeVerdicts
    BY DEF Outcome, Uncertain, ChangeVerdicts
  <2>5. VerifyOnce => \E seen \in {"verified", "mismatch", "error"} : concluded' = Outcome(seen)
    BY DEF VerifyOnce, Concludes
  <2>6. VerifyOnce => concluded' \in ChangeVerdicts
    BY <2>4, <2>5
  <2> QED
    BY <2>1, <2>2, <2>3, <2>6
<1> QED
  BY <1>1, <1>3, <1>4, <1>6, <1>7, <1>8, <1>9, <1>10 DEF ChangeTypeOK

-----------------------------------------------------------------------------
(* What is told *)

\* Before the write nothing is under way and nothing said; only what was not
\* sent at all is neither under way nor unanswered.
InOrder ==
    /\ phase \in {"form", "reading", "review", "token"} => arriving = "none" /\ reply = "none"
    /\ phase \in {"form", "reading", "review", "token", "sent"} => concluded = Untold
    /\ phase = "sent" /\ arriving = "none" => reply = "refused"
    /\ reply = "refused" => arriving \in {"none", "refused"}

\* Whatever is in place while the write is under way was noted.
PlaceIsNoted == arriving # "none" /\ Is(there) => inPlace

\* A machine's own name changes once at most, and not by Tale.
HostnameKept == there["hostname"] = chance.there["hostname"] \/ chance.foreign = {}

\* What is told as done is so, or somebody else has changed it.
StillSo == concluded.state = "Succeeded" => Is(there) \/ disturbed \/ Ambiguous

ChangeInv == ChangeTypeOK /\ InOrder /\ PlaceIsNoted /\ HostnameKept /\ StillSo /\ ChangeIsAsTold

LEMMA AmbiguousStays ==
    ASSUME ChangeTypeOK, HostnameKept, [ChangeNext]_changeVars
    PROVE  /\ HostnameKept'
           /\ Ambiguous => Ambiguous'
<1>1. /\ chance'.kind = chance.kind /\ chance'.there = chance.there
      /\ chance'.foreign = chance.foreign \/ chance'.foreign = {}
      /\ ShapeFits(Shaped) /\ Shaped' = Shaped
  BY StaysTheChange
<1>2. there \in [ChangeFields -> Values] /\ Field # "hostname" /\ "hostname" \in ChangeFields
  BY <1>1 DEF ChangeTypeOK, TailnetStates, ShapeFits, Field, ChangeFields, DeviceFields
<1>3. \/ there'["hostname"] = there["hostname"]
      \/ chance.foreign # {} /\ chance'.foreign = {}
  <2>1. CASE \E f \in ChangeFields : SomebodyChanges(f)
    <3>1. chance.foreign # {} /\ chance' = [chance EXCEPT !.foreign = {}]
      BY <2>1 DEF SomebodyChanges
    <3> QED
      BY <3>1, Spent
  <2>2. CASE Applies
    BY <1>2, <2>2 DEF Applies
  <2> QED
    BY <2>1, <2>2, WhoActs DEF Refuses, Dispatch
<1>4. PICK host, first : host = there["hostname"] /\ first = chance.there["hostname"]
  OBVIOUS
<1>5. PICK host2 : host2 = there'["hostname"]
  OBVIOUS
<1>6. (host2 = host /\ chance'.foreign \in {chance.foreign, {}}) \/ (host = first /\ chance'.foreign = {})
  BY <1>1, <1>3, <1>4, <1>5 DEF HostnameKept
<1>7. HostnameKept'
  BY <1>1, <1>4, <1>5, <1>6 DEF HostnameKept
<1>8. Ambiguous => Ambiguous'
  BY <1>1, <1>4, <1>5, <1>6 DEF Ambiguous
<1> QED
  BY <1>7, <1>8

\* What verification finds is in place, but for a machine's own name.
LEMMA VerifiedIs ==
    ASSUME ChangeTypeOK, Verified
    PROVE  Is(there) \/ Ambiguous
<1>1. ShapeFits(Shaped)
  BY ShapesFit DEF Shaped, ChangeTypeOK, ChangeRecords
<1>2. CASE Field = "present"
  <2>1. there["present"] = No
    BY <1>2 DEF Verified, GoneVerified, DeviceFields, RouteFields, UserFields, DnsFields
  <2>2. Shaped.wanted = {No}
    BY <1>1, <1>2 DEF ShapeFits, Field
  <2> QED
    BY <1>2, <2>1, <2>2 DEF Is
<1>3. CASE Field # "present" /\ ~Is(there)
  <2>1. Field \in DeviceFields \cup UserFields \cup DnsFields
    BY <1>1, <1>3 DEF ShapeFits, Field, ChangeFields
  <2>2. DeviceVerified
    BY <1>3, <2>1 DEF Verified, UserVerified, DnsVerified, DeviceFields, RouteFields, UserFields, DnsFields
  <2>3. chance.kind = "DeviceRename" /\ RenameVerified
    BY <1>3, <2>2 DEF DeviceVerified, ExpireVerified
  <2> QED
    BY <1>3, <2>3 DEF RenameVerified, Ambiguous
<1> QED
  BY <1>2, <1>3

\* The tailnet changes: what was told of the change stays so.
LEMMA WorldKeeps ==
    ASSUME ChangeInv, Applies \/ Refuses \/ \E f \in ChangeFields : SomebodyChanges(f)
    PROVE  (InOrder /\ PlaceIsNoted /\ StillSo /\ ChangeIsAsTold)'
<1>1. [ChangeNext]_changeVars
  BY DEF ChangeNext
<1>2. /\ ShapeFits(Shaped) /\ Shaped' = Shaped /\ Field' = Field /\ chance'.kind = chance.kind
      /\ Ambiguous => Ambiguous'
  BY <1>1, StaysTheChange, AmbiguousStays DEF ChangeInv
<1>3. UNCHANGED <<lists, phase, reply, concluded>>
  BY DEF Applies, Refuses, SomebodyChanges, Tale
<1>4. /\ arriving' = arriving \/ (arriving \in {"sent", "accepted"} /\ arriving' = "applied")
                              \/ (arriving = "sent" /\ reply = "none" /\ arriving' = "refused")
      /\ disturbed => disturbed'
      /\ inPlace => inPlace'
  <2>1. CASE Applies
    BY <2>1 DEF Applies, Noted
  <2>2. CASE Refuses
    BY <2>2 DEF Refuses
  <2>3. CASE \E f \in ChangeFields : SomebodyChanges(f)
    <3>1. arriving' = arriving
      BY <2>3 DEF SomebodyChanges
    <3>2. disturbed => disturbed'
      BY <2>3 DEF SomebodyChanges
    <3>3. inPlace => inPlace'
      BY <2>3 DEF SomebodyChanges, Noted
    <3> QED
      BY <3>1, <3>2, <3>3
  <2> QED
    BY <2>1, <2>2, <2>3
<1>5. there \in [ChangeFields -> Values] /\ Field \in ChangeFields
  BY <1>2 DEF ChangeInv, ChangeTypeOK, TailnetStates, ShapeFits, Field
<1>6. PICK now, next : now = there[Field] /\ next = there'[Field]
  OBVIOUS
<1>7. \/ next = now
      \/ disturbed'
      \/ next \in Shaped.wanted
  <2>1. CASE Applies
    BY <1>5, <1>6, <2>1 DEF Applies
  <2>2. CASE Refuses
    BY <1>6, <2>2 DEF Refuses
  <2>3. CASE \E f \in ChangeFields : SomebodyChanges(f)
    <3>1. PICK f \in ChangeFields : SomebodyChanges(f)
      BY <2>3
    <3>2. CASE f = Field
      BY <3>1, <3>2 DEF SomebodyChanges
    <3>3. CASE f # Field
      BY <1>5, <1>6, <3>1, <3>3 DEF SomebodyChanges
    <3> QED
      BY <3>2, <3>3
  <2> QED
    BY <2>1, <2>2, <2>3
<1>8. arriving' # "none" /\ next \in Shaped.wanted => inPlace'
  <2>1. CASE Refuses
    BY <1>6, <2>1 DEF Refuses, ChangeInv, PlaceIsNoted, Is
  <2>2. CASE Applies \/ \E f \in ChangeFields : SomebodyChanges(f)
    BY <1>6, <2>2 DEF Applies, SomebodyChanges, Noted
  <2> QED
    BY <2>1, <2>2
<1>9. InOrder'
  BY <1>3, <1>4 DEF ChangeInv, InOrder, Untold
<1>10. PlaceIsNoted'
  BY <1>2, <1>6, <1>8 DEF PlaceIsNoted, Is
<1>11. StillSo'
  BY <1>2, <1>3, <1>4, <1>6, <1>7 DEF ChangeInv, StillSo, Is
<1>12. ChangeIsAsTold'
  BY <1>2, <1>3, <1>4 DEF ChangeInv, ChangeIsAsTold, AtPhase
<1> QED
  BY <1>9, <1>10, <1>11, <1>12

LEMMA FormKeeps ==
    ASSUME ChangeInv,
           RelistUnderForm \/ AcceptForm \/ Fetch \/ FetchFails \/ Compare \/ Confirm
    PROVE  (InOrder /\ PlaceIsNoted /\ StillSo /\ ChangeIsAsTold)'
<1>1. /\ UNCHANGED <<there, arriving, inPlace, disturbed, reply, concluded>>
      /\ phase \in {"form", "reading", "review", "token"} /\ phase' \in {"form", "reading", "review", "token"}
  BY DEF RelistUnderForm, AcceptForm, Fetch, FetchFails, Compare, Confirm, World, AtPhase, Proceeds
<1>2. arriving = "none" /\ reply = "none" /\ concluded = Untold
  BY <1>1 DEF ChangeInv, InOrder
<1> QED
  BY <1>1, <1>2 DEF InOrder, PlaceIsNoted, StillSo, ChangeIsAsTold, Untold

LEMMA WriteKeeps ==
    ASSUME ChangeInv, Unsent \/ Dispatch \/ Replies \/ Deadline
    PROVE  (InOrder /\ PlaceIsNoted /\ StillSo /\ ChangeIsAsTold)'
<1>1. [ChangeNext]_changeVars
  BY DEF ChangeNext
<1>2. Shaped' = Shaped /\ Field' = Field
  BY <1>1, StaysTheChange DEF ChangeInv
<1>3. InOrder /\ PlaceIsNoted
  BY DEF ChangeInv
<1>4. CASE Unsent
  <2>1. /\ arriving = "none" /\ reply = "none" /\ phase' = "told" /\ concluded' = [state |-> "Failed", why |-> "unsent"]
        /\ UNCHANGED <<arriving, reply, there, inPlace>>
    BY <1>3, <1>4 DEF Unsent, InOrder, AtPhase, Says, Proceeds, ByTale
  <2> QED
    BY <2>1 DEF InOrder, PlaceIsNoted, StillSo, ChangeIsAsTold
<1>5. CASE Dispatch
  <2>1. /\ arriving = "none" /\ reply = "none" /\ phase' = "sent" /\ concluded = Untold /\ concluded' = concluded
        /\ (arriving' = "sent" /\ reply' = reply) \/ (reply' = "refused" /\ arriving' = arriving)
        /\ inPlace' = Is(there) /\ there' = there
    BY <1>3, <1>5 DEF Dispatch, InOrder, AtPhase, Proceeds
  <2>2. PlaceIsNoted'
    BY <1>2, <2>1 DEF PlaceIsNoted, Is
  <2> QED
    BY <2>1, <2>2 DEF InOrder, StillSo, ChangeIsAsTold, Untold
<1>6. CASE Replies
  <2>1. /\ reply = "none" /\ phase = "sent" /\ phase' = "sent" /\ concluded = Untold /\ concluded' = concluded
        /\ UNCHANGED <<there, inPlace>> /\ arriving # "none"
    BY <1>3, <1>6 DEF Replies, InOrder, AtPhase, ByTale
  <2>2. /\ arriving' = arriving \/ (arriving = "sent" /\ arriving' = "accepted")
        /\ reply' = "refused" => arriving' = "refused"
    BY <1>6 DEF Replies
  <2>3. PlaceIsNoted'
    BY <1>2, <1>3, <2>1 DEF PlaceIsNoted, Is
  <2> QED
    BY <2>1, <2>2, <2>3 DEF InOrder, StillSo, ChangeIsAsTold, Untold
<1>7. CASE Deadline
  <2>1. UNCHANGED <<there, inPlace, chance, arriving, phase, reply, concluded>> /\ phase = "sent"
    BY <1>7 DEF Deadline, ByTale, AtPhase
  <2>2. concluded = Untold
    BY <1>3, <2>1 DEF InOrder
  <2>3. InOrder' /\ PlaceIsNoted'
    BY <1>2, <1>3, <2>1 DEF InOrder, PlaceIsNoted, Is, Untold
  <2> QED
    BY <2>1, <2>2, <2>3 DEF StillSo, ChangeIsAsTold, Untold
<1> QED
  BY <1>4, <1>5, <1>6, <1>7

\* run_admin_mutation: what is concluded from the answer and from what was seen.
LEMMA VerifyKeeps ==
    ASSUME ChangeInv, VerifyOnce
    PROVE  (InOrder /\ PlaceIsNoted /\ StillSo /\ ChangeIsAsTold)'
<1>1. [ChangeNext]_changeVars
  BY DEF ChangeNext
<1>2. /\ Shaped' = Shaped /\ Field' = Field
      /\ Ambiguous => Ambiguous'
  BY <1>1, StaysTheChange, AmbiguousStays DEF ChangeInv
<1>3. /\ phase = "sent" /\ phase' = "told" /\ reply # "none"
      /\ UNCHANGED <<there, inPlace, disturbed, arriving, reply>>
  BY DEF VerifyOnce, AtPhase, Concludes, Proceeds, ByTale
<1>4. PICK seen \in {"verified", "mismatch", "error"} :
        /\ concluded' = Outcome(seen)
        /\ seen = "verified" => Verified
  BY DEF VerifyOnce, Concludes
<1>5. arriving = "none" => reply = "refused"
  BY <1>3 DEF ChangeInv, InOrder
<1>6. reply = "refused" => arriving \in {"none", "refused"}
  BY DEF ChangeInv, InOrder
<1>7. concluded'.state = "Succeeded" => (reply = "accepted" \/ Uncertain(reply)) /\ Verified
  BY <1>4 DEF Outcome, Uncertain
<1>8. concluded'.why # "unsent"
  BY <1>4 DEF Outcome
<1>9. concluded'.why = "rejected" => reply \in {"refused", "unreadable"}
  <2>1. reply \in {"accepted", "unreadable", "refused", "timeout", "server failure", "rate limited", "cancelled"}
    BY <1>3 DEF ChangeInv, ChangeTypeOK
  <2>2. reply \in {"timeout", "server failure", "rate limited", "cancelled"} => Uncertain(reply)
    BY DEF Uncertain
  <2>3. CASE reply = "accepted"
    BY <1>4, <2>3 DEF Outcome, Uncertain
  <2>4. CASE Uncertain(reply)
    BY <1>4, <2>4 DEF Outcome, Uncertain
  <2> QED
    BY <2>1, <2>2, <2>3, <2>4
<1>10. concluded'.state = "Succeeded" => arriving # "none" /\ (Is(there) \/ Ambiguous)
  BY <1>5, <1>7, VerifiedIs DEF Uncertain, ChangeInv
<1>11. concluded'.state = "Succeeded" => inPlace \/ Ambiguous
  BY <1>10 DEF ChangeInv, PlaceIsNoted
<1>12. InOrder'
  BY <1>3, <1>6 DEF InOrder
<1>13. PlaceIsNoted'
  BY <1>2, <1>3 DEF ChangeInv, PlaceIsNoted, Is
<1>14. StillSo'
  BY <1>2, <1>3, <1>10 DEF StillSo, Is
<1>15. ChangeIsAsTold'
  BY <1>2, <1>3, <1>6, <1>8, <1>9, <1>11 DEF ChangeIsAsTold, AtPhase
<1> QED
  BY <1>12, <1>13, <1>14, <1>15

\* What is read again shows the change: every kind reads its own field.
LEMMA RefetchKeeps ==
    ASSUME ChangeInv, Refetch
    PROVE  (InOrder /\ PlaceIsNoted /\ StillSo /\ ChangeIsAsTold)'
<1>1. [ChangeNext]_changeVars
  BY DEF ChangeNext
<1>2. /\ ShapeFits(Shaped) /\ Shaped' = Shaped /\ Field' = Field
      /\ Ambiguous => Ambiguous'
  BY <1>1, StaysTheChange, AmbiguousStays DEF ChangeInv
<1>3. /\ UNCHANGED <<there, inPlace, disturbed, arriving, reply, concluded>>
      /\ (phase' = "over" /\ lists' = Refreshed(there)) \/ phase' = "stale"
  BY DEF Refetch, World, AtPhase, Proceeds
<1>4. Refreshed(there)[Field] = there[Field]
  BY <1>2 DEF Refreshed, ShapeFits, Field
<1>5. InOrder'
  BY <1>3 DEF ChangeInv, InOrder
<1>6. PlaceIsNoted' /\ StillSo'
  BY <1>2, <1>3 DEF ChangeInv, PlaceIsNoted, StillSo, Is
<1>7. ChangeIsAsTold'
  <2>1. PICK shown : shown = lists'[Field]
    OBVIOUS
  <2>2. concluded.state = "Succeeded" /\ phase' = "over" => shown \in Shaped.wanted \/ disturbed \/ Ambiguous
    BY <1>3, <1>4, <2>1 DEF ChangeInv, StillSo, Is
  <2> QED
    BY <1>2, <1>3, <2>1, <2>2 DEF ChangeInv, ChangeIsAsTold, AtPhase
<1> QED
  BY <1>5, <1>6, <1>7

LEMMA ChangeInvInit == ChangeInit => ChangeInv
<1> SUFFICES ASSUME ChangeInit PROVE ChangeInv
  OBVIOUS
<1>1. chance \in ChangeRecords /\ there = chance.there
  BY ChangeAssumption DEF ChangeInit
<1>2. there \in TailnetStates
  BY <1>1 DEF ChangeRecords
<1>3. Len(Shaped.reads) \in Nat
  BY <1>1, ShapesFit DEF Shaped, ShapeFits, ChangeRecords
<1>4. ChangeTypeOK
  <2>1. {there, lists, base, fresh} \subseteq TailnetStates
    BY <1>2 DEF ChangeInit
  <2>2. read \in 0..Len(Shaped.reads)
    BY <1>3 DEF ChangeInit
  <2>3. concluded \in ChangeVerdicts
    BY DEF ChangeInit, Untold, ChangeVerdicts
  <2> QED
    BY <1>1, <2>1, <2>2, <2>3 DEF ChangeInit, ChangeTypeOK
<1> QED
  BY <1>1, <1>4 DEF ChangeInit, ChangeInv, InOrder, PlaceIsNoted, HostnameKept, StillSo, ChangeIsAsTold, Untold

LEMMA ChangeInvNext == ChangeInv /\ [ChangeNext]_changeVars => ChangeInv'
<1> SUFFICES ASSUME ChangeInv, [ChangeNext]_changeVars PROVE ChangeInv'
  OBVIOUS
<1>1. ChangeTypeOK' /\ HostnameKept'
  BY TypesStay, AmbiguousStays DEF ChangeInv
<1>2. (InOrder /\ PlaceIsNoted /\ StillSo /\ ChangeIsAsTold)'
  <2>1. CASE UNCHANGED changeVars
    BY <2>1 DEF changeVars, ChangeInv, InOrder, PlaceIsNoted, StillSo, ChangeIsAsTold, Is, Ambiguous, Shaped, Field, AtPhase
  <2>2. CASE ChangeNext
    BY <2>2, WorldKeeps, FormKeeps, WriteKeeps, VerifyKeeps, RefetchKeeps DEF ChangeNext
  <2> QED
    BY <2>1, <2>2
<1> QED
  BY <1>1, <1>2 DEF ChangeInv

\* The tailnet, what is shown and kept of it, and where a change is keep their
\* types, for any of the sixteen kinds.
THEOREM ChangeTypeCorrect == ChangeSpec => []ChangeTypeOK
<1>1. ChangeInv => ChangeTypeOK
  BY DEF ChangeInv
<1> QED
  BY <1>1, ChangeInvInit, ChangeInvNext, PTL DEF ChangeSpec

\* run_admin_mutation and verify_admin_change: what the user is told of a change
\* is so, whatever was lost, late or changed by somebody else meanwhile.
THEOREM ChangesAreToldAsTheyAre == ChangeSpec => []ChangeIsAsTold
<1>1. ChangeInv => ChangeIsAsTold
  BY DEF ChangeInv
<1> QED
  BY <1>1, ChangeInvInit, ChangeInvNext, PTL DEF ChangeSpec

-----------------------------------------------------------------------------
(* Operational requests: the invariant *)

\* The tailnet with what a request asks for, and what it has beside it.
EffectIn(state, asked) ==
    CASE asked.kind = "create"   -> [state EXCEPT !.next = @ + 1,
                                                  !.hooks = Append(@, [id |-> state.next, url |-> asked.url, provider |-> asked.provider,
                                                                       subscriptions |-> WireSubscriptions(asked.subscriptions)])]
      [] asked.kind = "edit"     -> [state EXCEPT !.hooks = [i \in DOMAIN @ |-> IF @[i].id = asked.id
                                        THEN [@[i] EXCEPT !.subscriptions = WireSubscriptions(asked.after)] ELSE @[i]]]
      [] asked.kind = "delete"   -> [state EXCEPT !.hooks = WithoutHook(@, asked.id)]
      [] asked.kind = "replace"  -> [state EXCEPT !.streams[asked.log] =
                                        [destination |-> Body(asked).destination, secret |-> Body(asked).secret,
                                         fields |-> [key \in StreamKeys |-> Of(Body(asked).fields, key, NotSet)]]]
      [] asked.kind = "unstream" -> [state EXCEPT !.streams[asked.log] = NoStream]
      [] asked.kind = "logging"  -> [state EXCEPT !.logging = asked.enabled]
      [] OTHER                   -> state
HoldsIn(state, sent, asked) ==
    CASE asked.kind = "create"   -> \E i \in DOMAIN state.hooks :
                                    /\ state.hooks[i].url = asked.url /\ state.hooks[i].provider = asked.provider
                                    /\ state.hooks[i].subscriptions = WireSubscriptions(asked.subscriptions)
      [] asked.kind = "edit"     -> /\ asked.id \in Ids(state.hooks)
                                    /\ WithId(state.hooks, asked.id).subscriptions = WireSubscriptions(asked.after)
      [] asked.kind = "delete"   -> asked.id \notin Ids(state.hooks)
      [] asked.kind = "replace"  -> /\ state.streams[asked.log] # NoStream
                                    /\ ConfigurationMatches(asked, AsRead(state.streams[asked.log]))
                                    /\ sent = "accepted" => state.streams[asked.log].secret = asked.secret
      [] asked.kind = "unstream" -> state.streams[asked.log] = NoStream
      [] asked.kind = "logging"  -> state.logging = asked.enabled
      [] OTHER                   -> TRUE
ExistsIn(state, asked) ==
    CASE asked.kind \in {"edit", "rotate", "delete", "test"} -> asked.id \in Ids(state.hooks)
      [] asked.kind = "unstream"                             -> state.streams[asked.log] # NoStream
      [] OTHER                                               -> TRUE

OwnId(asked, newest) == Of(asked, "id", IF asked.kind = "create" THEN newest ELSE 0)
OthersIn(state, newest, asked) ==
    [hooks |-> {state.hooks[i] : i \in DOMAIN state.hooks} \ {h \in {state.hooks[i] : i \in DOMAIN state.hooks} :
                    h.id = OwnId(asked, newest)},
     streams |-> [log \in LogTypes \ {Of(asked, "log", "none")} |-> state.streams[log]],
     logging |-> asked.kind = "logging" \/ state.logging]

\* What was asked for came from a form: a stream's fields are those of its
\* destination, and an edit names what the endpoint was told of before.
FromForm(asked) ==
    /\ asked.kind = "replace" /\ asked.destination = "gcs" => asked.fields["s3-bucket"] = NotSet
    /\ asked.kind = "edit" => WireSubscriptions(asked.before) \ Known \subseteq WireSubscriptions(asked.after)
ReviewFromForm == approval # NoApproval => approval.kind = approval.request.kind /\ FromForm(approval.request)

\* How far an operation is, and what it may say by then.
SaysItself(e) ==
    /\ FromForm(e.request)
    /\ e.step = "write" => e.sent = "no" /\ e.result = "none" /\ e.told = "none"
    /\ e.step \in {"first", "second"} => e.sent \in {"accepted", "lost"} /\ e.result = "none" /\ e.told = "none"
    /\ e.step = "second" => e.saw \in {"match", "other"}
    /\ e.step = "answered" => e.told = "none"
    /\ e.told \in {"none", "elsewhere", e.result}
    /\ e.result = "Failed" => e.sent = "refused"
    /\ e.result = "Unverified" => e.sent = "accepted"

\* What the operation says of the tailnet, as long as nobody else was at work.
SaysTruly(e, state) ==
    e.alone =>
        /\ e.sent \in {"no", "refused"} => state = e.was
        /\ e.sent = "accepted" \/ e.result = "Verified" => HoldsIn(state, e.sent, e.request)
        /\ e.step = "second" /\ e.saw = "match" /\ e.request.kind = "replace" =>
              state.streams[e.request.log] # NoStream /\ ConfigurationMatches(e.request, AsRead(state.streams[e.request.log]))
        /\ OthersIn(state, e.was.next, e.request) = OthersIn(e.was, e.was.next, e.request)

OperationInv ==
    /\ OperationTypeOK /\ OwnIds(remote) /\ ReviewFromForm
    /\ errand # NoErrand => SaysItself(errand) /\ SaysTruly(errand, remote)

-----------------------------------------------------------------------------
(* Operational requests: lists, names and kinds *)

\* Each kind of request has its own fields.
LEMMA AskFields ==
    ASSUME NEW asked \in OperationAsks
    PROVE  /\ asked.kind \in {"test", "rotate", "delete", "edit", "create", "replace", "unstream", "logging"}
           /\ asked.kind \in {"test", "rotate", "delete"} => asked \in Endpointed
           /\ asked.kind = "edit" => asked \in Edits
           /\ asked.kind = "create" => asked \in Creations
           /\ asked.kind = "replace" => asked \in Replacements
           /\ asked.kind = "unstream" => asked \in Removals
           /\ asked.kind = "logging" => asked \in Switches
BY DEF OperationAsks, Endpointed, Edits, Creations, Replacements, Removals, Switches

\* Names that come from the server come back as they were.
LEMMA NamesComeBack ==
    ASSUME NEW names \in SUBSET Texts
    PROVE  /\ SubscriptionSet({}, names) \in Subscriptions
           /\ WireSubscriptions(SubscriptionSet({}, names)) = names
<1>1. SubscriptionSet({}, names) = [categories |-> {}, events |-> names \cap Known, unknown_categories |-> {}, unknown_events |-> names \ Known]
  BY DEF SubscriptionSet
<1>2. SubscriptionSet({}, names) \in Subscriptions
  <2>1. /\ {} \in SUBSET Known /\ names \cap Known \in SUBSET Known
        /\ {} \in SUBSET Texts /\ names \ Known \in SUBSET Texts
    OBVIOUS
  <2>2. QED
    BY <1>1, <2>1 DEF Subscriptions
<1>3. WireSubscriptions(SubscriptionSet({}, names)) = names
  BY <1>1 DEF WireSubscriptions, WireCategories, WireEvents
<1>4. QED
  BY <1>2, <1>3

LEMMA NamesTyped ==
    ASSUME OperationAssumption, NEW s \in Subscriptions
    PROVE  WireSubscriptions(s) \in SUBSET Texts /\ WireCategories(s) \in SUBSET Texts /\ WireEvents(s) \in SUBSET Texts
BY DEF OperationAssumption, Subscriptions, WireSubscriptions, WireCategories, WireEvents

\* A list of endpoints is as long as the server's and has its identities.
LEMMA EndpointsTyped ==
    ASSUME NEW hooks \in Seq(Webhooks)
    PROVE  /\ Endpoints(hooks) \in Seq(SeenHooks)
           /\ \A i \in DOMAIN hooks : Endpoint(hooks[i]) \in SeenHooks
<1>1. ASSUME NEW i \in DOMAIN hooks PROVE Endpoint(hooks[i]) \in SeenHooks
  <2>1. hooks[i] \in Webhooks
    OBVIOUS
  <2>2. PICK s : s = SubscriptionSet({}, hooks[i].subscriptions)
    OBVIOUS
  <2>3. s \in Subscriptions
    BY <2>1, <2>2, NamesComeBack DEF Webhooks
  <2>4. Endpoint(hooks[i]) = [hooks[i] EXCEPT !.subscriptions = s]
    BY <2>2 DEF Endpoint
  <2>5. QED
    BY <2>1, <2>3, <2>4 DEF Webhooks, SeenHooks
<1>2. Endpoints(hooks) \in Seq(SeenHooks)
  <2>1. Len(hooks) \in Nat /\ DOMAIN hooks = 1..Len(hooks)
    OBVIOUS
  <2>2. Endpoints(hooks) = [i \in 1..Len(hooks) |-> Endpoint(hooks[i])]
    BY <2>1 DEF Endpoints
  <2>3. \A i \in 1..Len(hooks) : Endpoint(hooks[i]) \in SeenHooks
    BY <1>1, <2>1
  <2>4. QED
    BY <2>1, <2>2, <2>3
<1>3. QED
  BY <1>1, <1>2

\* The endpoint with an identity that the server has, is one of its own.
LEMMA WithItsId ==
    ASSUME NEW hooks \in Seq(Webhooks), NEW id \in Ids(hooks)
    PROVE  /\ WithId(hooks, id).id = id /\ WithId(hooks, id) \in Webhooks
           /\ \E i \in DOMAIN hooks : WithId(hooks, id) = hooks[i]
<1>1. \E h \in {hooks[i] : i \in DOMAIN hooks} : h.id = id
  BY DEF Ids
<1>2. WithId(hooks, id) \in {hooks[i] : i \in DOMAIN hooks} /\ WithId(hooks, id).id = id
  BY <1>1 DEF WithId
<1>3. QED
  BY <1>2

\* A list without one of its elements.
LEMMA WithoutOne ==
    ASSUME NEW hooks \in Seq(Webhooks), NEW id \in Ids(hooks),
           \A i, j \in DOMAIN hooks : hooks[i].id = hooks[j].id => i = j
    PROVE  /\ WithoutHook(hooks, id) \in Seq(Webhooks)
           /\ \A j \in DOMAIN hooks : hooks[j].id # id =>
                 \E i \in DOMAIN WithoutHook(hooks, id) : WithoutHook(hooks, id)[i] = hooks[j]
           /\ \A i \in DOMAIN WithoutHook(hooks, id) : \E j \in DOMAIN hooks :
                 WithoutHook(hooks, id)[i] = hooks[j] /\ hooks[j].id # id
           /\ \A i, j \in DOMAIN WithoutHook(hooks, id) : WithoutHook(hooks, id)[i].id = WithoutHook(hooks, id)[j].id => i = j
<1> DEFINE at == CHOOSE i \in DOMAIN hooks : hooks[i].id = id
<1> DEFINE rest == [i \in 1..(Len(hooks) - 1) |-> IF i < at THEN hooks[i] ELSE hooks[i + 1]]
<1>1. at \in DOMAIN hooks /\ hooks[at].id = id
  BY DEF Ids
<1>2. WithoutHook(hooks, id) = rest
  BY DEF WithoutHook
<1> PICK n \in Nat : n = Len(hooks)
  OBVIOUS
<1> PICK k : k = at
  OBVIOUS
<1>3. DOMAIN hooks = 1..n /\ k \in 1..n /\ hooks[k].id = id /\ n - 1 \in Nat
  BY <1>1
<1>4. DOMAIN rest = 1..(n - 1) /\ \A i \in 1..(n - 1) : rest[i] = IF i < k THEN hooks[i] ELSE hooks[i + 1]
  OBVIOUS
<1> HIDE DEF at, rest
<1>5. \A i \in 1..(n - 1) : rest[i] \in Webhooks
  BY <1>3, <1>4
<1>6. rest \in Seq(Webhooks)
  <2>1. rest = [i \in 1..(n - 1) |-> rest[i]]
    BY <1>4 DEF rest
  <2>2. QED
    BY <2>1, <1>5, <1>3
<1>7. \A i \in 1..(n - 1) : \E j \in 1..n : j # k /\ rest[i] = hooks[j] /\ j = (IF i < k THEN i ELSE i + 1)
  BY <1>3, <1>4
<1>8. \A j \in 1..n : j # k => hooks[j].id # id
  BY <1>3
<1>9. \A j \in 1..n : j # k => \E i \in 1..(n - 1) : rest[i] = hooks[j]
  <2> TAKE j \in 1..n
  <2>1. CASE j < k
    BY <2>1, <1>3, <1>4
  <2>2. CASE j > k
    <3>1. j - 1 \in 1..(n - 1) /\ ~(j - 1 < k) /\ (j - 1) + 1 = j
      BY <2>2, <1>3
    <3>2. rest[j - 1] = hooks[j]
      BY <3>1, <1>4
    <3>3. QED
      BY <3>1, <3>2
  <2>3. QED
    BY <2>1, <2>2, <1>3
<1>10. \A j \in DOMAIN hooks : hooks[j].id # id => \E i \in DOMAIN rest : rest[i] = hooks[j]
  BY <1>3, <1>4, <1>9
<1>11. \A i, j \in 1..(n - 1) : rest[i].id = rest[j].id => i = j
  <2> TAKE a, b \in 1..(n - 1)
  <2>1. PICK c \in 1..n : rest[a] = hooks[c] /\ c = (IF a < k THEN a ELSE a + 1)
    BY <1>7
  <2>2. PICK d \in 1..n : rest[b] = hooks[d] /\ d = (IF b < k THEN b ELSE b + 1)
    BY <1>7
  <2>3. rest[a].id = rest[b].id => c = d
    BY <2>1, <2>2, <1>3
  <2>4. c = d => a = b
    BY <2>1, <2>2, <1>3
  <2>5. QED
    BY <2>3, <2>4
<1>12. \A i \in 1..(n - 1) : \E j \in 1..n : rest[i] = hooks[j] /\ hooks[j].id # id
  BY <1>7, <1>8
<1>13. PICK w : w = WithoutHook(hooks, id)
  OBVIOUS
<1>14. w = rest /\ DOMAIN w = 1..(n - 1)
  BY <1>2, <1>4, <1>13
<1>15. w \in Seq(Webhooks)
  BY <1>6, <1>14
<1>16. \A j \in DOMAIN hooks : hooks[j].id # id => \E i \in DOMAIN w : w[i] = hooks[j]
  BY <1>10, <1>14
<1>17. \A i \in DOMAIN w : \E j \in DOMAIN hooks : w[i] = hooks[j] /\ hooks[j].id # id
  BY <1>3, <1>12, <1>14
<1>18. \A i, j \in DOMAIN w : w[i].id = w[j].id => i = j
  BY <1>11, <1>14
<1>19. QED
  BY <1>13, <1>15, <1>16, <1>17, <1>18

-----------------------------------------------------------------------------
(* Operational requests: what a request does to a tailnet *)

\* Two states of a tailnet that have the same beside what a request is about.
LEMMA OthersAlike ==
    ASSUME NEW s, NEW t, NEW newest, NEW asked,
           \A i \in DOMAIN s.hooks : s.hooks[i].id # OwnId(asked, newest) => \E j \in DOMAIN t.hooks : t.hooks[j] = s.hooks[i],
           \A j \in DOMAIN t.hooks : t.hooks[j].id # OwnId(asked, newest) => \E i \in DOMAIN s.hooks : s.hooks[i] = t.hooks[j],
           \A log \in LogTypes \ {Of(asked, "log", "none")} : s.streams[log] = t.streams[log],
           asked.kind = "logging" \/ s.logging = t.logging
    PROVE  OthersIn(s, newest, asked) = OthersIn(t, newest, asked)
<1> PICK own : own = OwnId(asked, newest)
  OBVIOUS
<1> DEFINE Hooks(u) == {u.hooks[i] : i \in DOMAIN u.hooks} \ {h \in {u.hooks[i] : i \in DOMAIN u.hooks} : h.id = own}
<1>1. ASSUME NEW h PROVE h \in Hooks(s) <=> h \in Hooks(t)
  <2>1. h \in Hooks(s) <=> (\E i \in DOMAIN s.hooks : h = s.hooks[i]) /\ h.id # own
    OBVIOUS
  <2>2. h \in Hooks(t) <=> (\E i \in DOMAIN t.hooks : h = t.hooks[i]) /\ h.id # own
    OBVIOUS
  <2>3. QED
    BY <2>1, <2>2
<1>2. Hooks(s) = Hooks(t)
  BY <1>1
<1>3. [log \in LogTypes \ {Of(asked, "log", "none")} |-> s.streams[log]] = [log \in LogTypes \ {Of(asked, "log", "none")} |-> t.streams[log]]
  OBVIOUS
<1>4. (asked.kind = "logging" \/ s.logging) = (asked.kind = "logging" \/ t.logging)
  OBVIOUS
<1>5. QED
  BY <1>2, <1>3, <1>4 DEF OthersIn

\* The parts of a tailnet, and one part that is replaced.
LEMMA TailnetParts ==
    ASSUME NEW state \in Tailnets
    PROVE  /\ state.hooks \in Seq(Webhooks) /\ state.streams \in [LogTypes -> Streams \cup {NoStream}]
           /\ state.logging \in BOOLEAN /\ state.next \in Nat
           /\ DOMAIN state.hooks = 1..Len(state.hooks) /\ Len(state.hooks) \in Nat
           /\ \A i \in DOMAIN state.hooks : state.hooks[i] \in Webhooks /\ state.hooks[i].id \in Nat
<1>1. /\ state.hooks \in Seq(Webhooks) /\ state.streams \in [LogTypes -> Streams \cup {NoStream}]
      /\ state.logging \in BOOLEAN /\ state.next \in Nat
  BY DEF Tailnets
<1>2. DOMAIN state.hooks = 1..Len(state.hooks) /\ Len(state.hooks) \in Nat /\ \A i \in DOMAIN state.hooks : state.hooks[i] \in Webhooks
  BY <1>1
<1>3. \A i \in DOMAIN state.hooks : state.hooks[i].id \in Nat
  BY <1>2 DEF Webhooks
<1>4. QED
  BY <1>1, <1>2, <1>3

LEMMA WithHooks ==
    ASSUME NEW state \in Tailnets, NEW hooks \in Seq(Webhooks)
    PROVE  /\ [state EXCEPT !.hooks = hooks] \in Tailnets
           /\ [state EXCEPT !.hooks = hooks].hooks = hooks
           /\ [state EXCEPT !.hooks = hooks].next = state.next
           /\ [state EXCEPT !.hooks = hooks].streams = state.streams
           /\ [state EXCEPT !.hooks = hooks].logging = state.logging
BY DEF Tailnets

LEMMA WithStream ==
    ASSUME NEW state \in Tailnets, NEW log \in LogTypes, NEW stream \in Streams \cup {NoStream}
    PROVE  \E s \in Tailnets :
              /\ s = [state EXCEPT !.streams[log] = stream]
              /\ s.hooks = state.hooks /\ s.next = state.next /\ s.logging = state.logging
              /\ s.streams[log] = stream
              /\ \A other \in LogTypes \ {log} : s.streams[other] = state.streams[other]
<1>0. PICK streams : streams = [state.streams EXCEPT ![log] = stream]
  OBVIOUS
<1>1. state.streams \in [LogTypes -> Streams \cup {NoStream}]
  BY TailnetParts
<1>2. /\ streams \in [LogTypes -> Streams \cup {NoStream}] /\ streams[log] = stream
      /\ \A other \in LogTypes \ {log} : streams[other] = state.streams[other]
  BY <1>0, <1>1
<1>3. PICK s : s = [state EXCEPT !.streams = streams]
  OBVIOUS
<1>4. s \in Tailnets /\ s.hooks = state.hooks /\ s.next = state.next /\ s.logging = state.logging /\ s.streams = streams
  BY <1>2, <1>3 DEF Tailnets
<1>5. s = [state EXCEPT !.streams[log] = stream]
  BY <1>0, <1>3
<1>6. QED
  BY <1>2, <1>4, <1>5

LEMMA WithLogging ==
    ASSUME NEW state \in Tailnets, NEW on \in BOOLEAN, NEW s, s = [state EXCEPT !.logging = on]
    PROVE  s \in Tailnets /\ s.hooks = state.hooks /\ s.next = state.next /\ s.streams = state.streams /\ s.logging = on
BY DEF Tailnets

\* A state of the tailnet in which a request was done, and nothing else.
DoesIt(asked, state, s) ==
    /\ s \in Tailnets /\ OwnIds(s)
    /\ HoldsIn(s, "accepted", asked)
    /\ OthersIn(s, state.next, asked) = OthersIn(state, state.next, asked)

\* A new endpoint is the last of the list, with an identity of its own.
LEMMA CreationDoesIt ==
    ASSUME OperationAssumption, NEW state \in Tailnets, OwnIds(state), NEW asked \in Creations
    PROVE  DoesIt(asked, state, EffectIn(state, asked))
<1>0. asked.kind = "create" /\ "id" \notin DOMAIN asked /\ asked.subscriptions \in Subscriptions /\ asked.url \in Texts /\ asked.provider \in Texts
  BY DEF Creations
<1>n. PICK names : names = WireSubscriptions(asked.subscriptions)
  OBVIOUS
<1>h. PICK hooks : hooks = state.hooks
  OBVIOUS
<1>w. PICK new : new = [id |-> state.next, url |-> asked.url, provider |-> asked.provider, subscriptions |-> names]
  OBVIOUS
<1>1. hooks \in Seq(Webhooks) /\ state.next \in Nat /\ state.next + 1 \in Nat
  BY <1>h, TailnetParts
<1>2. new \in Webhooks /\ new.id = state.next /\ new.url = asked.url /\ new.provider = asked.provider /\ new.subscriptions = names
  BY <1>0, <1>1, <1>w, <1>n, NamesTyped DEF Webhooks
<1>l. PICK longer : longer = Append(hooks, new)
  OBVIOUS
<1>3. /\ longer \in Seq(Webhooks) /\ DOMAIN hooks = 1..Len(hooks) /\ Len(hooks) \in Nat
      /\ DOMAIN longer = 1..(Len(hooks) + 1)
      /\ \A i \in 1..Len(hooks) : longer[i] = hooks[i]
      /\ longer[Len(hooks) + 1] = new
  BY <1>1, <1>2, <1>l
<1>s. PICK s : s = [state EXCEPT !.next = @ + 1, !.hooks = longer]
  OBVIOUS
<1>4. EffectIn(state, asked) = s
  BY <1>0, <1>h, <1>n, <1>w, <1>l, <1>s DEF EffectIn
<1>5. s \in Tailnets /\ s.hooks = longer /\ s.next = state.next + 1 /\ s.streams = state.streams /\ s.logging = state.logging
  <2>0. PICK next : next = state.next + 1
    OBVIOUS
  <2>1. next \in Nat /\ s = [state EXCEPT !.next = next, !.hooks = longer]
    BY <1>1, <1>s, <2>0
  <2>2. s \in Tailnets /\ s.hooks = longer /\ s.next = next /\ s.streams = state.streams /\ s.logging = state.logging
    <3>1. longer \in Seq(Webhooks)
      BY <1>3
    <3>2. QED
      BY <2>1, <3>1 DEF Tailnets
  <2>3. QED
    BY <2>0, <2>2
<1>6. OwnIds(s)
  <2>1. \A i \in 1..Len(hooks) : hooks[i].id < state.next /\ hooks[i].id \in Nat
    BY <1>3, <1>h, TailnetParts DEF OwnIds
  <2>2. \A i \in 1..(Len(hooks) + 1) : longer[i].id < state.next + 1
    <3> TAKE i \in 1..(Len(hooks) + 1)
    <3>1. CASE i \in 1..Len(hooks)
      BY <3>1, <2>1, <1>1, <1>3
    <3>2. CASE i = Len(hooks) + 1
      BY <3>2, <1>1, <1>2, <1>3
    <3>3. QED
      BY <3>1, <3>2, <1>3
  <2>3. \A i, j \in 1..(Len(hooks) + 1) : longer[i].id = longer[j].id => i = j
    <3>1. \A i, j \in 1..Len(hooks) : hooks[i].id = hooks[j].id => i = j
      BY <1>3, <1>h DEF OwnIds
    <3> TAKE i, j \in 1..(Len(hooks) + 1)
    <3>2. CASE i \in 1..Len(hooks) /\ j \in 1..Len(hooks)
      BY <3>1, <3>2, <1>3
    <3>3. CASE i = Len(hooks) + 1 /\ j \in 1..Len(hooks)
      BY <3>3, <2>1, <1>1, <1>2, <1>3
    <3>4. CASE j = Len(hooks) + 1 /\ i \in 1..Len(hooks)
      BY <3>4, <2>1, <1>1, <1>2, <1>3
    <3>5. QED
      BY <3>2, <3>3, <3>4, <1>3
  <2>4. QED
    BY <1>3, <1>5, <2>2, <2>3 DEF OwnIds
<1>7. HoldsIn(s, "accepted", asked)
  <2>1. Len(hooks) + 1 \in DOMAIN s.hooks /\ s.hooks[Len(hooks) + 1] = new
    BY <1>3, <1>5
  <2>2. \E i \in DOMAIN s.hooks : s.hooks[i].url = asked.url /\ s.hooks[i].provider = asked.provider /\ s.hooks[i].subscriptions = names
    BY <1>2, <2>1
  <2>3. QED
    BY <1>0, <1>n, <2>2 DEF HoldsIn
<1>8. OthersIn(s, state.next, asked) = OthersIn(state, state.next, asked)
  <2>1. OwnId(asked, state.next) = state.next
    BY <1>0 DEF OwnId, Of
  <2>2. \A i \in DOMAIN s.hooks : s.hooks[i].id # state.next => \E j \in DOMAIN state.hooks : state.hooks[j] = s.hooks[i]
    <3> TAKE i \in DOMAIN s.hooks
    <3>1. i \in 1..Len(hooks) \/ i = Len(hooks) + 1
      BY <1>3, <1>5
    <3>2. CASE i \in 1..Len(hooks)
      BY <3>2, <1>3, <1>5, <1>h
    <3>3. CASE i = Len(hooks) + 1
      BY <3>3, <1>2, <1>3, <1>5
    <3>4. QED
      BY <3>1, <3>2, <3>3
  <2>3. \A j \in DOMAIN state.hooks : \E i \in DOMAIN s.hooks : s.hooks[i] = state.hooks[j]
    BY <1>3, <1>5, <1>h
  <2>4. QED
    <3>1. /\ \A i \in DOMAIN s.hooks : s.hooks[i].id # OwnId(asked, state.next) => \E j \in DOMAIN state.hooks : state.hooks[j] = s.hooks[i]
          /\ \A j \in DOMAIN state.hooks : state.hooks[j].id # OwnId(asked, state.next) => \E i \in DOMAIN s.hooks : s.hooks[i] = state.hooks[j]
      BY <2>1, <2>2, <2>3
    <3>2. /\ \A log \in LogTypes \ {Of(asked, "log", "none")} : s.streams[log] = state.streams[log]
          /\ s.logging = state.logging
      BY <1>5
    <3>3. QED
      BY <3>1, <3>2, OthersAlike
<1>9. QED
  BY <1>4, <1>5, <1>6, <1>7, <1>8 DEF DoesIt

\* An edit tells the endpoint of other events, and no other endpoint.
LEMMA EditDoesIt ==
    ASSUME OperationAssumption, NEW state \in Tailnets, OwnIds(state), NEW asked \in Edits, asked.id \in Ids(state.hooks)
    PROVE  DoesIt(asked, state, EffectIn(state, asked))
<1>0. asked.kind = "edit" /\ "id" \in DOMAIN asked /\ asked.after \in Subscriptions
  BY DEF Edits
<1>n. PICK names : names = WireSubscriptions(asked.after)
  OBVIOUS
<1>h. PICK hooks : hooks = state.hooks
  OBVIOUS
<1>1. /\ hooks \in Seq(Webhooks) /\ names \in SUBSET Texts
      /\ DOMAIN hooks = 1..Len(hooks) /\ Len(hooks) \in Nat /\ \A i \in DOMAIN hooks : hooks[i] \in Webhooks
  BY <1>0, <1>n, <1>h, TailnetParts, NamesTyped
<1>l. PICK told : told = [i \in DOMAIN hooks |-> IF hooks[i].id = asked.id THEN [hooks[i] EXCEPT !.subscriptions = names] ELSE hooks[i]]
  OBVIOUS
<1>2. DOMAIN told = 1..Len(hooks)
  BY <1>1, <1>l
<1>3. ASSUME NEW i \in 1..Len(hooks)
      PROVE  /\ told[i] \in Webhooks /\ told[i].id = hooks[i].id
             /\ hooks[i].id = asked.id => told[i].subscriptions = names
             /\ hooks[i].id # asked.id => told[i] = hooks[i]
  <2>1. told[i] = IF hooks[i].id = asked.id THEN [hooks[i] EXCEPT !.subscriptions = names] ELSE hooks[i]
    BY <1>1, <1>l
  <2>2. hooks[i] \in Webhooks
    BY <1>1
  <2>3. QED
    BY <1>1, <2>1, <2>2 DEF Webhooks
<1>4. told \in Seq(Webhooks) /\ Len(told) = Len(hooks)
  <2>1. told = [i \in 1..Len(hooks) |-> told[i]]
    BY <1>1, <1>l
  <2>2. QED
    BY <2>1, <1>1, <1>3
<1>s. PICK s : s = [state EXCEPT !.hooks = told]
  OBVIOUS
<1>5. EffectIn(state, asked) = s
  BY <1>0, <1>h, <1>n, <1>l, <1>s DEF EffectIn
<1>6. s \in Tailnets /\ s.hooks = told /\ s.next = state.next /\ s.streams = state.streams /\ s.logging = state.logging
  BY <1>4, <1>s DEF Tailnets
<1>7. OwnIds(s)
  BY <1>1, <1>2, <1>3, <1>6, <1>h DEF OwnIds
<1>8. asked.id \in Ids(told)
  BY <1>1, <1>2, <1>3, <1>h DEF Ids
<1>9. HoldsIn(s, "accepted", asked)
  <2>1. PICK i \in 1..Len(hooks) : WithId(told, asked.id) = told[i] /\ told[i].id = asked.id
    BY <1>2, <1>4, <1>8, WithItsId
  <2>2. WithId(told, asked.id).subscriptions = names
    BY <2>1, <1>3
  <2>3. QED
    BY <1>0, <1>n, <1>6, <1>8, <2>2 DEF HoldsIn
<1>10. OthersIn(s, state.next, asked) = OthersIn(state, state.next, asked)
  <2>1. OwnId(asked, state.next) = asked.id
    BY <1>0 DEF OwnId, Of
  <2>2. \A i \in DOMAIN s.hooks : s.hooks[i].id # asked.id => \E j \in DOMAIN state.hooks : state.hooks[j] = s.hooks[i]
    BY <1>1, <1>2, <1>3, <1>6, <1>h
  <2>3. \A j \in DOMAIN state.hooks : state.hooks[j].id # asked.id => \E i \in DOMAIN s.hooks : s.hooks[i] = state.hooks[j]
    BY <1>1, <1>2, <1>3, <1>6, <1>h
  <2>4. /\ \A log \in LogTypes \ {Of(asked, "log", "none")} : s.streams[log] = state.streams[log]
        /\ s.logging = state.logging
    BY <1>6
  <2>5. QED
    BY <2>1, <2>2, <2>3, <2>4, OthersAlike
<1>11. QED
  BY <1>5, <1>6, <1>7, <1>9, <1>10 DEF DoesIt

\* A deletion takes the endpoint with the identity, and no other.
LEMMA DeletionDoesIt ==
    ASSUME NEW state \in Tailnets, OwnIds(state), NEW asked \in Endpointed, asked.kind = "delete", asked.id \in Ids(state.hooks)
    PROVE  DoesIt(asked, state, EffectIn(state, asked))
<1>0. "id" \in DOMAIN asked
  BY DEF Endpointed
<1>h. PICK hooks : hooks = state.hooks
  OBVIOUS
<1>r. PICK rest : rest = WithoutHook(hooks, asked.id)
  OBVIOUS
<1>1. hooks \in Seq(Webhooks) /\ asked.id \in Ids(hooks) /\ \A i, j \in DOMAIN hooks : hooks[i].id = hooks[j].id => i = j
  BY <1>h, TailnetParts DEF OwnIds
<1>2. /\ rest \in Seq(Webhooks)
      /\ \A j \in DOMAIN hooks : hooks[j].id # asked.id => \E i \in DOMAIN rest : rest[i] = hooks[j]
      /\ \A i \in DOMAIN rest : \E j \in DOMAIN hooks : rest[i] = hooks[j] /\ hooks[j].id # asked.id
      /\ \A i, j \in DOMAIN rest : rest[i].id = rest[j].id => i = j
  BY <1>1, <1>r, WithoutOne
<1>s. PICK s : s = [state EXCEPT !.hooks = rest]
  OBVIOUS
<1>3. EffectIn(state, asked) = s
  BY <1>h, <1>r, <1>s DEF EffectIn
<1>4. s \in Tailnets /\ s.hooks = rest /\ s.next = state.next /\ s.streams = state.streams /\ s.logging = state.logging
  <2>1. rest \in Seq(Webhooks)
    BY <1>2
  <2>2. QED
    BY <2>1, <1>s DEF Tailnets
<1>5. OwnIds(s)
  <2>1. \A i \in DOMAIN rest : rest[i].id < state.next
    BY <1>2, <1>h DEF OwnIds
  <2>2. QED
    BY <2>1, <1>2, <1>4 DEF OwnIds
<1>6. HoldsIn(s, "accepted", asked)
  <2>1. asked.id \notin Ids(rest)
    BY <1>2 DEF Ids
  <2>2. QED
    BY <2>1, <1>4 DEF HoldsIn
<1>7. OthersIn(s, state.next, asked) = OthersIn(state, state.next, asked)
  <2>1. OwnId(asked, state.next) = asked.id
    BY <1>0 DEF OwnId, Of
  <2>2. \A i \in DOMAIN s.hooks : s.hooks[i].id # asked.id => \E j \in DOMAIN state.hooks : state.hooks[j] = s.hooks[i]
    BY <1>2, <1>4, <1>h
  <2>3. \A j \in DOMAIN state.hooks : state.hooks[j].id # asked.id => \E i \in DOMAIN s.hooks : s.hooks[i] = state.hooks[j]
    BY <1>2, <1>4, <1>h
  <2>4. /\ \A log \in LogTypes \ {Of(asked, "log", "none")} : s.streams[log] = state.streams[log]
        /\ s.logging = state.logging
    BY <1>4
  <2>5. QED
    BY <2>1, <2>2, <2>3, <2>4, OthersAlike
<1>8. QED
  BY <1>3, <1>4, <1>5, <1>6, <1>7 DEF DoesIt

\* What a request is about, when it is none of the endpoints.
LEMMA StreamOthers ==
    ASSUME NEW state \in Tailnets, NEW s \in Tailnets, NEW asked,
           s.hooks = state.hooks, s.logging = state.logging \/ asked.kind = "logging",
           \A log \in LogTypes \ {Of(asked, "log", "none")} : s.streams[log] = state.streams[log]
    PROVE  OthersIn(s, state.next, asked) = OthersIn(state, state.next, asked)
<1>1. /\ \A i \in DOMAIN s.hooks : s.hooks[i].id # OwnId(asked, state.next) => \E j \in DOMAIN state.hooks : state.hooks[j] = s.hooks[i]
      /\ \A j \in DOMAIN state.hooks : state.hooks[j].id # OwnId(asked, state.next) => \E i \in DOMAIN s.hooks : s.hooks[i] = state.hooks[j]
  OBVIOUS
<1>2. QED
  BY <1>1, OthersAlike

\* A removal and a switch do one thing each.
LEMMA RemovalDoesIt ==
    ASSUME NEW state \in Tailnets, OwnIds(state), NEW asked \in Removals
    PROVE  DoesIt(asked, state, EffectIn(state, asked))
<1>0. asked.kind = "unstream" /\ asked.log \in LogTypes /\ Of(asked, "log", "none") = asked.log
  BY DEF Removals, Of
<1>s. PICK s : s = [state EXCEPT !.streams[asked.log] = NoStream]
  OBVIOUS
<1>1. EffectIn(state, asked) = s
  BY <1>0, <1>s DEF EffectIn
<1>2. /\ s \in Tailnets /\ s.hooks = state.hooks /\ s.next = state.next /\ s.logging = state.logging
      /\ s.streams[asked.log] = NoStream
      /\ \A other \in LogTypes \ {asked.log} : s.streams[other] = state.streams[other]
  <2>1. NoStream \in Streams \cup {NoStream}
    OBVIOUS
  <2>2. PICK stream \in Streams \cup {NoStream} : stream = NoStream
    BY <2>1
  <2>3. PICK t \in Tailnets :
           /\ t = [state EXCEPT !.streams[asked.log] = stream]
           /\ t.hooks = state.hooks /\ t.next = state.next /\ t.logging = state.logging
           /\ t.streams[asked.log] = stream
           /\ \A other \in LogTypes \ {asked.log} : t.streams[other] = state.streams[other]
    BY <1>0, <2>2, WithStream
  <2>4. s = t
    BY <2>2, <2>3, <1>s
  <2>5. QED
    BY <2>2, <2>3, <2>4
<1>3. HoldsIn(s, "accepted", asked)
  BY <1>0, <1>2 DEF HoldsIn
<1>4. OwnIds(s)
  BY <1>2 DEF OwnIds
<1>5. OthersIn(s, state.next, asked) = OthersIn(state, state.next, asked)
  BY <1>0, <1>2, StreamOthers
<1>6. QED
  BY <1>1, <1>2, <1>3, <1>4, <1>5 DEF DoesIt

LEMMA SwitchDoesIt ==
    ASSUME NEW state \in Tailnets, OwnIds(state), NEW asked \in Switches
    PROVE  DoesIt(asked, state, EffectIn(state, asked))
<1>0. asked.kind = "logging" /\ asked.enabled \in BOOLEAN
  BY DEF Switches
<1>s. PICK s : s = [state EXCEPT !.logging = asked.enabled]
  OBVIOUS
<1>1. EffectIn(state, asked) = s
  BY <1>0, <1>s DEF EffectIn
<1>2. s \in Tailnets /\ s.hooks = state.hooks /\ s.next = state.next /\ s.streams = state.streams /\ s.logging = asked.enabled
  BY <1>0, <1>s, WithLogging
<1>3. HoldsIn(s, "accepted", asked)
  BY <1>0, <1>2 DEF HoldsIn
<1>4. OwnIds(s)
  BY <1>2 DEF OwnIds
<1>5. OthersIn(s, state.next, asked) = OthersIn(state, state.next, asked)
  BY <1>0, <1>2, StreamOthers
<1>6. QED
  BY <1>1, <1>2, <1>3, <1>4, <1>5 DEF DoesIt

\* The stream that is there after a replacement is the one that was asked
\* for, as a later read shows it.
LEMMA BodyIsAsked ==
    ASSUME OperationAssumption, NEW asked \in Replacements, FitToSend(asked), FromForm(asked), NEW stream,
           stream = [destination |-> Body(asked).destination, secret |-> Body(asked).secret,
                     fields |-> [key \in StreamKeys |-> Of(Body(asked).fields, key, NotSet)]]
    PROVE  /\ stream \in Streams /\ stream # NoStream /\ stream.secret = asked.secret
           /\ ConfigurationMatches(asked, AsRead(stream))
<1>0. /\ asked.kind = "replace" /\ asked.destination \in Texts /\ asked.secret \in Texts
      /\ asked.fields \in [StreamKeys -> Texts] /\ \A key \in StreamKeys : asked.fields[key] \in Texts
  <2>1. /\ asked.kind = "replace" /\ asked.destination \in Texts /\ asked.secret \in Texts
        /\ asked.fields \in [StreamKeys -> Texts]
    BY DEF Replacements
  <2>2. QED
    BY <2>1
<1>d. PICK given : given = {k \in StreamKeys : asked.fields[k] # NotSet} \ (IF asked.destination \in {"s3", "gcs"} THEN {"url"} ELSE {})
  OBVIOUS
<1>b. PICK body : body = [key \in given |-> asked.fields[key]]
  OBVIOUS
<1>1. Body(asked).destination = asked.destination /\ Body(asked).secret = asked.secret /\ Body(asked).fields = body
  BY <1>d, <1>b DEF Body
<1>f. PICK fields : fields = [key \in StreamKeys |-> Of(body, key, NotSet)]
  OBVIOUS
<1>2. stream = [destination |-> asked.destination, secret |-> asked.secret, fields |-> fields]
  BY <1>1, <1>f
<1>3. ASSUME NEW key \in StreamKeys
      PROVE  /\ fields[key] = IF key \in given THEN asked.fields[key] ELSE NotSet
             /\ fields[key] \in Texts
  <2>1. fields[key] = Of(body, key, NotSet)
    BY <1>f
  <2>2. DOMAIN body = given /\ (key \in given => body[key] = asked.fields[key])
    BY <1>b
  <2>3. fields[key] = IF key \in given THEN asked.fields[key] ELSE NotSet
    BY <2>1, <2>2 DEF Of
  <2>4. asked.fields[key] \in Texts
    BY <1>0
  <2>6. NotSet \in Texts
    BY DEF OperationAssumption
  <2>5. QED
    BY <2>3, <2>4, <2>6
<1>4. fields \in [StreamKeys -> Texts]
  BY <1>3, <1>f
<1>5. stream \in Streams /\ stream.destination = asked.destination /\ stream.secret = asked.secret /\ stream.fields = fields
  BY <1>0, <1>2, <1>4 DEF Streams
<1>6. stream # NoStream
  BY <1>5 DEF Streams, NoStream
<1>7. {"url", "s3-bucket", "gcs-bucket"} \subseteq StreamKeys
  BY DEF StreamKeys, OfDestination
<1>8. \A key \in StreamKeys \ IdentityKeys : fields[key] = asked.fields[key] /\ key # "url"
  BY <1>0, <1>3, <1>d DEF IdentityKeys
<1>9. ValidReplacement(asked)
  BY <1>0 DEF FitToSend
<1>u. /\ fields["url"] = IF asked.fields["url"] # NotSet /\ asked.destination \notin {"s3", "gcs"} THEN asked.fields["url"] ELSE NotSet
      /\ fields["s3-bucket"] = asked.fields["s3-bucket"]
      /\ fields["gcs-bucket"] = asked.fields["gcs-bucket"]
  BY <1>0, <1>3, <1>7, <1>d
<1>10. Identity(fields) = CASE asked.destination = "s3"  -> asked.fields["s3-bucket"]
                            [] asked.destination = "gcs" -> asked.fields["gcs-bucket"]
                            [] OTHER                     -> asked.fields["url"]
  <2>1. CASE asked.destination = "s3"
    <3>1. asked.fields["s3-bucket"] # NotSet
      BY <1>9, <2>1 DEF ValidReplacement
    <3>2. QED
      BY <1>u, <2>1, <3>1 DEF Identity
  <2>2. CASE asked.destination = "gcs"
    <3>1. asked.fields["s3-bucket"] = NotSet
      BY <1>0, <2>2 DEF FromForm
    <3>2. QED
      BY <1>u, <2>2, <3>1 DEF Identity
  <2>3. CASE asked.destination \notin {"s3", "gcs"}
    <3>1. asked.fields["url"] # NotSet
      BY <1>9, <2>3 DEF ValidReplacement
    <3>2. QED
      BY <1>u, <2>3, <3>1 DEF Identity
  <2>4. QED
    BY <2>1, <2>2, <2>3
<1>a. PICK observed : observed = AsRead(stream)
  OBVIOUS
<1>11. /\ observed.destination = asked.destination /\ observed.identity = Identity(fields)
       /\ \A key \in StreamKeys \ IdentityKeys : observed.fields[key] = fields[key]
  BY <1>a, <1>5 DEF AsRead
<1>12. ConfigurationMatches(asked, observed)
  <2>1. \A key \in StreamKeys \ IdentityKeys : asked.fields[key] \in {NotSet, observed.fields[key]}
    BY <1>8, <1>11
  <2>2. QED
    BY <1>10, <1>11, <2>1 DEF ConfigurationMatches
<1>13. QED
  BY <1>5, <1>6, <1>12, <1>a

LEMMA ReplacementDoesIt ==
    ASSUME OperationAssumption, NEW state \in Tailnets, OwnIds(state), NEW asked \in Replacements, FitToSend(asked), FromForm(asked)
    PROVE  DoesIt(asked, state, EffectIn(state, asked))
<1>0. asked.kind = "replace" /\ asked.log \in LogTypes /\ Of(asked, "log", "none") = asked.log
  BY DEF Replacements, Of
<1>m. PICK stream : stream = [destination |-> Body(asked).destination, secret |-> Body(asked).secret,
                              fields |-> [key \in StreamKeys |-> Of(Body(asked).fields, key, NotSet)]]
  OBVIOUS
<1>1. /\ stream \in Streams /\ stream # NoStream /\ stream.secret = asked.secret
      /\ ConfigurationMatches(asked, AsRead(stream))
  BY <1>m, BodyIsAsked
<1>s. PICK s \in Tailnets :
         /\ s = [state EXCEPT !.streams[asked.log] = stream]
         /\ s.hooks = state.hooks /\ s.next = state.next /\ s.logging = state.logging
         /\ s.streams[asked.log] = stream
         /\ \A other \in LogTypes \ {asked.log} : s.streams[other] = state.streams[other]
  BY <1>0, <1>1, WithStream
<1>2. EffectIn(state, asked) = s
  BY <1>0, <1>m, <1>s DEF EffectIn
<1>3. HoldsIn(s, "accepted", asked)
  BY <1>0, <1>1, <1>s DEF HoldsIn
<1>4. OwnIds(s)
  BY <1>s DEF OwnIds
<1>5. OthersIn(s, state.next, asked) = OthersIn(state, state.next, asked)
  <2>1. /\ s \in Tailnets /\ s.hooks = state.hooks /\ s.logging = state.logging
        /\ \A other \in LogTypes \ {Of(asked, "log", "none")} : s.streams[other] = state.streams[other]
    BY <1>0, <1>s
  <2>2. QED
    BY <2>1, StreamOthers
<1>6. QED
  BY <1>2, <1>3, <1>4, <1>5, <1>s DEF DoesIt

\* Whatever is asked for, a write that the server takes does it.
LEMMA WriteDoesIt ==
    ASSUME OperationAssumption, NEW state \in Tailnets, OwnIds(state), NEW asked \in OperationAsks,
           ExistsIn(state, asked), FitToSend(asked), FromForm(asked)
    PROVE  DoesIt(asked, state, EffectIn(state, asked))
<1>0. asked.kind \in {"test", "rotate", "delete", "edit", "create", "replace", "unstream", "logging"}
  BY AskFields
<1>1. CASE asked.kind = "create"
  BY <1>1, AskFields, CreationDoesIt
<1>2. CASE asked.kind = "edit"
  <2>1. asked.id \in Ids(state.hooks)
    BY <1>2 DEF ExistsIn
  <2>2. QED
    BY <1>2, <2>1, AskFields, EditDoesIt
<1>3. CASE asked.kind = "delete"
  <2>1. asked.id \in Ids(state.hooks)
    BY <1>3 DEF ExistsIn
  <2>2. QED
    BY <1>3, <2>1, AskFields, DeletionDoesIt
<1>4. CASE asked.kind = "replace"
  BY <1>4, AskFields, ReplacementDoesIt
<1>5. CASE asked.kind = "unstream"
  BY <1>5, AskFields, RemovalDoesIt
<1>6. CASE asked.kind = "logging"
  BY <1>6, AskFields, SwitchDoesIt
<1>7. CASE asked.kind \in {"test", "rotate"}
  <2>1. EffectIn(state, asked) = state
    BY <1>7 DEF EffectIn
  <2>2. HoldsIn(state, "accepted", asked)
    BY <1>7 DEF HoldsIn
  <2>3. QED
    BY <2>1, <2>2 DEF DoesIt
<1>8. QED
  BY <1>0, <1>1, <1>2, <1>3, <1>4, <1>5, <1>6, <1>7

-----------------------------------------------------------------------------
(* Operational requests: what is known of the tailnet *)

LEMMA QuotaLessens ==
    ASSUME OperationAssumption, QuotaOK, NEW what \in {"asks", "refreshes", "faults", "hands"}, Consume(what)
    PROVE  QuotaOK'
<1>1. PICK b \in OperationBounds : DOMAIN quota = DOMAIN b /\ quota.fills \subseteq b.fills
  BY DEF QuotaOK
<1>2. DOMAIN quota = {"kinds", "fills", "asks", "refreshes", "faults", "hands", "start"}
  BY <1>1 DEF OperationAssumption
<1>3. {quota.asks, quota.refreshes, quota.faults, quota.hands} \subseteq Nat /\ quota[what] \in Nat /\ quota[what] > 0
  BY DEF QuotaOK, Consume
<1>4. PICK n : n = quota[what] - 1
  OBVIOUS
<1>5. n \in Nat /\ quota' = [quota EXCEPT ![what] = n]
  BY <1>3, <1>4 DEF Consume
<1>6. /\ DOMAIN quota' = DOMAIN quota /\ quota'.fills = quota.fills
      /\ \A k \in DOMAIN quota : quota'[k] = IF k = what THEN n ELSE quota[k]
  BY <1>2, <1>5
<1>7. {quota'.asks, quota'.refreshes, quota'.faults, quota'.hands} \subseteq Nat
  BY <1>2, <1>3, <1>5, <1>6
<1>8. DOMAIN quota' = DOMAIN b /\ quota'.fills \subseteq b.fills
  BY <1>1, <1>6
<1>9. QED
  BY <1>7, <1>8 DEF QuotaOK

LEMMA QuotaStays ==
    ASSUME QuotaOK, quota' = quota
    PROVE  QuotaOK'
BY DEF QuotaOK

\* A stream that is read has the fields that are read.
LEMMA StreamRead ==
    ASSUME OperationAssumption, NEW stream \in Streams
    PROVE  AsRead(stream) \in SeenStreams
<1>1. stream.destination \in Texts /\ stream.fields \in [StreamKeys -> Texts]
  BY DEF Streams
<1>2. {"url", "s3-bucket", "gcs-bucket"} \subseteq StreamKeys
  BY DEF StreamKeys, OfDestination
<1>3. Identity(stream.fields) \in Texts
  BY <1>1, <1>2 DEF Identity
<1>4. [key \in StreamKeys \ IdentityKeys |-> stream.fields[key]] \in [StreamKeys \ IdentityKeys -> Texts]
  BY <1>1
<1>5. QED
  BY <1>1, <1>3, <1>4 DEF AsRead, SeenStreams

\* What is shown of a tailnet.
LEMMA StreamsRead ==
    ASSUME OperationAssumption, NEW state \in Tailnets, NEW log \in LogTypes
    PROVE  (IF state.streams[log] = NoStream THEN NoStream ELSE AsRead(state.streams[log])) \in SeenStreams \cup {NoStream}
<1>1. state.streams[log] \in Streams \cup {NoStream}
  BY TailnetParts
<1>2. QED
  BY <1>1, StreamRead

LEMMA MirroredTyped ==
    ASSUME OperationAssumption, remote \in Tailnets, mirror \in Mirrors, NEW unread
    PROVE  Mirrored(unread) \in Mirrors
<1>h. PICK hooks : hooks = IF "hooks" \in unread THEN mirror.hooks ELSE Endpoints(remote.hooks)
  OBVIOUS
<1>s. PICK streams : streams = [log \in LogTypes |-> IF log \in unread THEN mirror.streams[log]
                                                     ELSE IF remote.streams[log] = NoStream THEN NoStream
                                                     ELSE AsRead(remote.streams[log])]
  OBVIOUS
<1>l. PICK logging : logging = IF "logging" \in unread THEN mirror.logging ELSE remote.logging
  OBVIOUS
<1>0. mirror.hooks \in Seq(SeenHooks) /\ mirror.streams \in [LogTypes -> SeenStreams \cup {NoStream}] /\ mirror.logging \in BOOLEAN
  BY DEF Mirrors
<1>1. hooks \in Seq(SeenHooks)
  <2>1. Endpoints(remote.hooks) \in Seq(SeenHooks)
    BY TailnetParts, EndpointsTyped
  <2>2. QED
    BY <1>0, <2>1, <1>h
<1>2. streams \in [LogTypes -> SeenStreams \cup {NoStream}]
  <2>1. ASSUME NEW log \in LogTypes
        PROVE  (IF log \in unread THEN mirror.streams[log]
                ELSE IF remote.streams[log] = NoStream THEN NoStream ELSE AsRead(remote.streams[log])) \in SeenStreams \cup {NoStream}
    <3>1. mirror.streams[log] \in SeenStreams \cup {NoStream}
      BY <1>0
    <3>2. (IF remote.streams[log] = NoStream THEN NoStream ELSE AsRead(remote.streams[log])) \in SeenStreams \cup {NoStream}
      BY StreamsRead
    <3>3. QED
      BY <3>1, <3>2
  <2>2. QED
    BY <2>1, <1>s
<1>3. logging \in BOOLEAN
  BY <1>0, <1>l, TailnetParts
<1>4. Mirrored(unread) = [hooks |-> hooks, streams |-> streams, logging |-> logging]
  BY <1>h, <1>s, <1>l DEF Mirrored
<1>5. QED
  BY <1>1, <1>2, <1>3, <1>4 DEF Mirrors

LEMMA OperationInitInv == ASSUME OperationAssumption, OperationInit PROVE OperationInv
<1>1. quota \in OperationBounds /\ remote = quota.start
  BY DEF OperationInit
<1>2. remote \in Tailnets /\ OwnIds(remote)
  BY <1>1 DEF OperationAssumption
<1>3. QuotaOK
  BY <1>1 DEF OperationAssumption, QuotaOK
<1>4. mirror \in Mirrors
  <2>s. PICK streams : streams = [log \in LogTypes |-> IF remote.streams[log] = NoStream THEN NoStream ELSE AsRead(remote.streams[log])]
    OBVIOUS
  <2>1. streams \in [LogTypes -> SeenStreams \cup {NoStream}]
    BY <1>2, <2>s, StreamsRead
  <2>2. Endpoints(remote.hooks) \in Seq(SeenHooks) /\ remote.logging \in BOOLEAN
    BY <1>2, TailnetParts, EndpointsTyped
  <2>3. mirror = [hooks |-> Endpoints(remote.hooks), logging |-> remote.logging, streams |-> streams]
    BY <2>s DEF OperationInit
  <2>4. QED
    BY <2>1, <2>2, <2>3 DEF Mirrors
<1>5. renewing \in BOOLEAN /\ sheet = NoSheet /\ approval = NoApproval /\ errand = NoErrand
  BY DEF OperationInit
<1>6. QED
  BY <1>2, <1>3, <1>4, <1>5 DEF OperationInv, OperationTypeOK, ReviewFromForm

-----------------------------------------------------------------------------
(* Operational requests: refreshes and other hands *)

\* What the operation says does not depend on the rest.
LEMMA SaysTheSame ==
    ASSUME NEW state, NEW e \in ErrandStates, SaysItself(e), SaysTruly(e, state), NEW d \in ErrandStates,
           d.request = e.request, d.step = e.step, d.sent = e.sent, d.result = e.result, d.told = e.told,
           d.saw = e.saw, d.was = e.was, d.alone = e.alone
    PROVE  SaysItself(d) /\ SaysTruly(d, state)
BY DEF SaysItself, SaysTruly

LEMMA StartRenewalInv == ASSUME OperationAssumption, OperationInv, StartRenewal PROVE OperationInv'
<1>0. /\ Consume("refreshes") /\ renewing' = TRUE
      /\ approval' = IF approval = NoApproval THEN approval ELSE [approval EXCEPT !.current = FALSE]
      /\ errand' = IF errand = NoErrand THEN errand ELSE [errand EXCEPT !.current = FALSE]
      /\ remote' = remote /\ mirror' = mirror /\ sheet' = sheet
  BY DEF StartRenewal
<1>1. /\ QuotaOK /\ remote \in Tailnets /\ mirror \in Mirrors /\ (sheet = NoSheet \/ IsSheet(sheet))
      /\ approval \in Approvals \cup {NoApproval} /\ errand \in ErrandStates \cup {NoErrand} /\ OwnIds(remote)
  BY DEF OperationInv, OperationTypeOK
<1>2. QuotaOK'
  BY <1>0, <1>1, QuotaLessens
<1>3. approval' \in Approvals \cup {NoApproval} /\ ReviewFromForm'
  <2>1. CASE approval = NoApproval
    BY <2>1, <1>0 DEF ReviewFromForm
  <2>2. CASE approval # NoApproval
    <3>1. approval \in Approvals /\ approval' = [approval EXCEPT !.current = FALSE]
      BY <2>2, <1>0, <1>1
    <3>2. approval' \in Approvals /\ approval'.kind = approval.kind /\ approval'.request = approval.request
      BY <3>1 DEF Approvals
    <3>3. approval.kind = approval.request.kind /\ FromForm(approval.request)
      BY <2>2 DEF OperationInv, ReviewFromForm
    <3>4. QED
      BY <3>2, <3>3 DEF ReviewFromForm
  <2>3. QED
    BY <2>1, <2>2
<1>4. /\ errand' \in ErrandStates \cup {NoErrand}
      /\ errand' # NoErrand => SaysItself(errand') /\ SaysTruly(errand', remote)
  <2>1. CASE errand = NoErrand
    BY <2>1, <1>0
  <2>2. CASE errand # NoErrand
    <3>1. errand \in ErrandStates /\ errand' = [errand EXCEPT !.current = FALSE]
      BY <2>2, <1>0, <1>1
    <3>2. /\ errand' \in ErrandStates
          /\ errand'.request = errand.request /\ errand'.step = errand.step /\ errand'.sent = errand.sent
          /\ errand'.result = errand.result /\ errand'.told = errand.told /\ errand'.saw = errand.saw
          /\ errand'.was = errand.was /\ errand'.alone = errand.alone
      BY <3>1 DEF ErrandStates
    <3>3. SaysItself(errand) /\ SaysTruly(errand, remote)
      BY <2>2 DEF OperationInv
    <3>4. QED
      BY <3>1, <3>2, <3>3, SaysTheSame
  <2>3. QED
    BY <2>1, <2>2
<1>5. QED
  BY <1>0, <1>1, <1>2, <1>3, <1>4 DEF OperationInv, OperationTypeOK

\* A step that leaves the tailnet, the review and the operation alone.
LEMMA ElsewhereInv ==
    ASSUME OperationInv, UNCHANGED <<remote, approval, errand>>, QuotaOK', mirror' \in Mirrors, renewing' \in BOOLEAN,
           (sheet = NoSheet \/ IsSheet(sheet))'
    PROVE  OperationInv'
<1>1. /\ remote' = remote /\ approval' = approval /\ errand' = errand
      /\ remote \in Tailnets /\ approval \in Approvals \cup {NoApproval} /\ errand \in ErrandStates \cup {NoErrand}
      /\ OwnIds(remote) /\ ReviewFromForm
      /\ errand # NoErrand => SaysItself(errand) /\ SaysTruly(errand, remote)
  BY DEF OperationInv, OperationTypeOK
<1>2. ReviewFromForm'
  BY <1>1 DEF ReviewFromForm
<1>3. QED
  BY <1>1, <1>2 DEF OperationInv, OperationTypeOK

LEMMA EndRenewalInv == ASSUME OperationAssumption, OperationInv, EndRenewal PROVE OperationInv'
<1>0. renewing' = FALSE /\ UNCHANGED <<remote, approval, errand>> /\ sheet' = sheet
  BY DEF EndRenewal
<1>1. QuotaOK /\ remote \in Tailnets /\ mirror \in Mirrors /\ (sheet = NoSheet \/ IsSheet(sheet))
  BY DEF OperationInv, OperationTypeOK
<1>2. CASE mirror' = Mirrored({}) /\ UNCHANGED quota
  BY <1>0, <1>1, <1>2, QuotaStays, MirroredTyped, ElsewhereInv
<1>3. CASE Consume("faults") /\ \E missed \in {"hooks", "network"} : mirror' = Mirrored({missed})
  BY <1>0, <1>1, <1>3, QuotaLessens, MirroredTyped, ElsewhereInv
<1>4. QED
  BY <1>2, <1>3 DEF EndRenewal

\* Whatever another administrator does, it is a tailnet still.
LEMMA HandsTyped ==
    ASSUME OperationAssumption, remote \in Tailnets, OwnIds(remote), AnotherHand
    PROVE  remote' \in Tailnets /\ OwnIds(remote')
<1>h. PICK hooks : hooks = remote.hooks
  OBVIOUS
<1>0. /\ hooks \in Seq(Webhooks) /\ DOMAIN hooks = 1..Len(hooks) /\ Len(hooks) \in Nat
      /\ \A i \in 1..Len(hooks) : hooks[i] \in Webhooks /\ hooks[i].id < remote.next
      /\ \A i, j \in 1..Len(hooks) : hooks[i].id = hooks[j].id => i = j
  BY <1>h, TailnetParts DEF OwnIds
<1>1. CASE remote.hooks # <<>> /\ remote' = [remote EXCEPT !.hooks = Tail(@)]
  <2>r. PICK rest : rest = Tail(hooks)
    OBVIOUS
  <2>1. /\ rest \in Seq(Webhooks) /\ DOMAIN rest = 1..(Len(hooks) - 1) /\ Len(hooks) # 0
        /\ \A i \in 1..(Len(hooks) - 1) : rest[i] = hooks[i + 1]
    BY <1>0, <1>1, <1>h, <2>r
  <2>2. remote' = [remote EXCEPT !.hooks = rest]
    BY <1>1, <1>h, <2>r
  <2>3. remote' \in Tailnets /\ remote'.hooks = rest /\ remote'.next = remote.next
    BY <2>1, <2>2 DEF Tailnets
  <2>4. \A i \in 1..(Len(hooks) - 1) : i + 1 \in 1..Len(hooks)
    BY <1>0
  <2>5. OwnIds(remote')
    <3>1. \A i \in 1..(Len(hooks) - 1) : rest[i].id < remote.next
      BY <1>0, <2>1, <2>4
    <3>2. \A i, j \in 1..(Len(hooks) - 1) : rest[i].id = rest[j].id => i = j
      BY <1>0, <2>1, <2>4
    <3>3. QED
      BY <2>1, <2>3, <3>1, <3>2 DEF OwnIds
  <2>6. QED
    BY <2>3, <2>5
<1>2. CASE remote.hooks # <<>> /\ remote' = [remote EXCEPT !.hooks[1].subscriptions = @ \cup {"later"}]
  <2>n. PICK names : names = hooks[1].subscriptions \cup {"later"}
    OBVIOUS
  <2>o. PICK one : one = [hooks[1] EXCEPT !.subscriptions = names]
    OBVIOUS
  <2>r. PICK told : told = [hooks EXCEPT ![1] = one]
    OBVIOUS
  <2>1. 1 \in 1..Len(hooks)
    BY <1>0, <1>2, <1>h
  <2>2. hooks[1] \in Webhooks /\ "later" \in Texts
    BY <1>0, <2>1 DEF OperationAssumption
  <2>3. names \in SUBSET Texts
    BY <2>2, <2>n DEF Webhooks
  <2>4. one \in Webhooks /\ one.id = hooks[1].id
    BY <2>2, <2>3, <2>o DEF Webhooks
  <2>5. /\ told \in Seq(Webhooks) /\ DOMAIN told = 1..Len(hooks)
        /\ \A i \in 1..Len(hooks) : told[i].id = hooks[i].id
    BY <1>0, <2>1, <2>4, <2>r
  <2>6. remote' = [remote EXCEPT !.hooks = told]
    BY <1>2, <1>h, <2>n, <2>o, <2>r
  <2>7. remote' \in Tailnets /\ remote'.hooks = told /\ remote'.next = remote.next
    <3>1. told \in Seq(Webhooks)
      BY <2>5
    <3>2. QED
      BY <3>1, <2>6 DEF Tailnets
  <2>8. OwnIds(remote')
    BY <1>0, <2>5, <2>7 DEF OwnIds
  <2>9. QED
    BY <2>7, <2>8
<1>3. ASSUME NEW log \in LogTypes, remote' = [remote EXCEPT !.streams[log] = NoStream]
      PROVE  remote' \in Tailnets /\ OwnIds(remote')
  <2>1. PICK stream \in Streams \cup {NoStream} : stream = NoStream
    OBVIOUS
  <2>2. PICK t \in Tailnets :
           /\ t = [remote EXCEPT !.streams[log] = stream]
           /\ t.hooks = remote.hooks /\ t.next = remote.next /\ t.logging = remote.logging
           /\ t.streams[log] = stream
           /\ \A other \in LogTypes \ {log} : t.streams[other] = remote.streams[other]
    BY <2>1, WithStream
  <2>3. remote' = t
    BY <1>3, <2>1, <2>2
  <2>4. QED
    BY <2>2, <2>3 DEF OwnIds
<1>4. CASE remote' = [remote EXCEPT !.logging = ~@]
  <2>1. PICK on \in BOOLEAN : on = ~remote.logging
    OBVIOUS
  <2>2. remote' = [remote EXCEPT !.logging = on]
    BY <1>4, <2>1
  <2>3. remote' \in Tailnets /\ remote'.hooks = remote.hooks /\ remote'.next = remote.next
    BY <2>1, <2>2 DEF Tailnets
  <2>4. QED
    BY <2>3 DEF OwnIds
<1>5. QED
  BY <1>1, <1>2, <1>3, <1>4 DEF AnotherHand

LEMMA AnotherHandInv == ASSUME OperationAssumption, OperationInv, AnotherHand PROVE OperationInv'
<1>0. /\ Consume("hands") /\ mirror' = mirror /\ renewing' = renewing /\ sheet' = sheet /\ approval' = approval
      /\ errand' = IF errand = NoErrand THEN errand ELSE [errand EXCEPT !.alone = FALSE]
  BY DEF AnotherHand
<1>1. /\ QuotaOK /\ remote \in Tailnets /\ mirror \in Mirrors /\ (sheet = NoSheet \/ IsSheet(sheet)) /\ renewing \in BOOLEAN
      /\ approval \in Approvals \cup {NoApproval} /\ errand \in ErrandStates \cup {NoErrand} /\ OwnIds(remote)
      /\ ReviewFromForm
  BY DEF OperationInv, OperationTypeOK
<1>2. QuotaOK' /\ ReviewFromForm'
  <2>1. QuotaOK'
    BY <1>0, <1>1, QuotaLessens
  <2>2. QED
    BY <1>0, <1>1, <2>1 DEF ReviewFromForm
<1>3. remote' \in Tailnets /\ OwnIds(remote')
  BY <1>1, HandsTyped
<1>4. /\ errand' \in ErrandStates \cup {NoErrand}
      /\ errand' # NoErrand => SaysItself(errand') /\ SaysTruly(errand', remote')
  <2>1. CASE errand = NoErrand
    BY <2>1, <1>0
  <2>2. CASE errand # NoErrand
    <3>1. errand \in ErrandStates /\ errand' = [errand EXCEPT !.alone = FALSE] /\ SaysItself(errand)
      BY <2>2, <1>0, <1>1 DEF OperationInv
    <3>2. /\ errand' \in ErrandStates /\ errand'.alone = FALSE
          /\ errand'.request = errand.request /\ errand'.step = errand.step /\ errand'.sent = errand.sent
          /\ errand'.result = errand.result /\ errand'.told = errand.told /\ errand'.saw = errand.saw
      BY <3>1 DEF ErrandStates
    <3>3. SaysItself(errand')
      BY <3>1, <3>2 DEF SaysItself
    <3>4. SaysTruly(errand', remote')
      BY <3>2 DEF SaysTruly
    <3>5. QED
      BY <3>2, <3>3, <3>4
  <2>3. QED
    BY <2>1, <2>2
<1>5. QED
  BY <1>0, <1>1, <1>2, <1>3, <1>4 DEF OperationInv, OperationTypeOK

-----------------------------------------------------------------------------
(* Operational requests: the forms *)

\* The fields of a log stream follow its destination.
LEMMA StreamFieldsTyped ==
    ASSUME OperationAssumption, NEW destination \in Texts, NEW kept, \A key \in DOMAIN kept : FieldHolds(key, kept[key])
    PROVE  LET f == StreamFields(destination, kept) IN
           /\ DOMAIN f = {"type", "destination"} \cup OfDestination(destination) \cup Common
           /\ OfDestination(f["destination"]) = OfDestination(destination)
           /\ \A key \in DOMAIN f : FieldHolds(key, f[key])
<1>k. PICK keys : keys = {"type", "destination"} \cup OfDestination(destination) \cup Common
  OBVIOUS
<1>f. PICK f : f = StreamFields(destination, kept)
  OBVIOUS
<1>1. /\ DOMAIN f = keys
      /\ \A key \in keys : f[key] = CASE key = "type"        -> IF Of(kept, "type", NotSet) = "configuration" THEN "configuration" ELSE "network"
                                      [] key = "destination" -> IF destination \in Supported THEN destination ELSE "splunk"
                                      [] OTHER               -> Of(kept, key, NotSet)
  BY <1>k, <1>f DEF StreamFields
<1>2. f["destination"] = IF destination \in Supported THEN destination ELSE "splunk"
  BY <1>1, <1>k
<1>3. OfDestination(f["destination"]) = OfDestination(destination)
  BY <1>2 DEF OfDestination, Supported
<1>4. f["type"] \in LogTypes
  BY <1>1, <1>k DEF LogTypes
<1>5. \A key \in keys : key \notin {"categories", "events", "enabled"}
  BY <1>k DEF OfDestination, Common
<1>6. ASSUME NEW key \in keys PROVE FieldHolds(key, f[key])
  <2>1. CASE key = "type"
    BY <2>1, <1>4 DEF FieldHolds
  <2>2. CASE key = "destination"
    <3>1. f[key] \in Texts
      BY <2>2, <1>2 DEF OperationAssumption, Supported
    <3>2. QED
      BY <3>1, <2>2, <1>5 DEF FieldHolds
  <2>3. CASE key \notin {"type", "destination"}
    <3>1. f[key] = Of(kept, key, NotSet)
      BY <1>1, <2>3
    <3>2. Of(kept, key, NotSet) \in Texts
      <4>1. NotSet \in Texts
        BY DEF OperationAssumption
      <4>2. key \in DOMAIN kept => kept[key] \in Texts
        BY <1>5, <2>3 DEF FieldHolds
      <4>3. QED
        BY <4>1, <4>2 DEF Of
    <3>3. QED
      BY <3>1, <3>2, <2>3, <1>5 DEF FieldHolds
  <2>4. QED
    BY <2>1, <2>2, <2>3
<1>7. QED
  BY <1>f, <1>k, <1>1, <1>3, <1>6

LEMMA SheetIsSheet ==
    ASSUME OperationAssumption, NEW kind \in {"create", "edit", "replace", "logging"}, NEW values,
           DOMAIN values = FieldsOf(kind, values), \A key \in DOMAIN values : FieldHolds(key, values[key])
    PROVE  IsSheet(Sheet(kind, values))
<1>1. NotSet \in Texts
  BY DEF OperationAssumption
<1>s. PICK s : s = Sheet(kind, values)
  OBVIOUS
<1>2. s.kind = kind /\ s.values = values /\ s.secret = NotSet /\ DOMAIN s = {"kind", "values", "secret"}
  BY <1>s DEF Sheet
<1>3. QED
  BY <1>1, <1>2, <1>s DEF IsSheet

\* Each form is filled in as it opens.
LEMMA WebhookFormTyped ==
    ASSUME OperationAssumption, mirror \in Mirrors, NEW kind \in {"create", "edit"}, kind = "edit" => HasWebhook
    PROVE  IsSheet(WebhookForm(kind))
<1>1. CASE kind = "edit"
  <2>1. SelectedWebhook \in SeenHooks
    <3>1. mirror.hooks \in Seq(SeenHooks) /\ mirror.hooks # <<>>
      BY <1>1 DEF HasWebhook, Mirrors
    <3>2. QED
      BY <3>1 DEF SelectedWebhook
  <2>s. PICK s \in Subscriptions : s = SelectedWebhook.subscriptions
    BY <2>1 DEF SeenHooks
  <2>v. PICK v : v = [categories |-> WireCategories(s), events |-> WireEvents(s)]
    OBVIOUS
  <2>2. WireCategories(s) \in SUBSET Texts /\ WireEvents(s) \in SUBSET Texts
    BY <2>s, NamesTyped
  <2>3. DOMAIN v = {"categories", "events"} /\ v["categories"] \in SUBSET Texts /\ v["events"] \in SUBSET Texts
    BY <2>2, <2>v
  <2>4. DOMAIN v = FieldsOf("edit", v) /\ \A key \in DOMAIN v : FieldHolds(key, v[key])
    BY <2>3 DEF FieldsOf, FieldHolds
  <2>5. WebhookForm(kind) = Sheet("edit", v)
    BY <1>1, <2>s, <2>v DEF WebhookForm
  <2>6. QED
    BY <2>4, <2>5, SheetIsSheet
<1>2. CASE kind = "create"
  <2>v. PICK v : v = [url |-> NotSet, provider |-> "none", categories |-> {}, events |-> {}]
    OBVIOUS
  <2>1. NotSet \in Texts /\ "none" \in Texts
    BY DEF OperationAssumption
  <2>2. /\ DOMAIN v = {"url", "provider", "categories", "events"}
        /\ v["url"] \in Texts /\ v["provider"] \in Texts /\ v["categories"] \in SUBSET Texts /\ v["events"] \in SUBSET Texts
    BY <2>v, <2>1
  <2>3. DOMAIN v = FieldsOf("create", v) /\ \A key \in DOMAIN v : FieldHolds(key, v[key])
    BY <2>2 DEF FieldsOf, FieldHolds
  <2>4. WebhookForm(kind) = Sheet("create", v)
    BY <1>2, <2>v DEF WebhookForm
  <2>5. QED
    BY <2>3, <2>4, SheetIsSheet
<1>3. QED
  BY <1>1, <1>2

LEMMA StreamSheet ==
    ASSUME OperationAssumption, NEW destination \in Texts, NEW kept, \A key \in DOMAIN kept : FieldHolds(key, kept[key])
    PROVE  IsSheet(Sheet("replace", StreamFields(destination, kept)))
<1>f. PICK f : f = StreamFields(destination, kept)
  OBVIOUS
<1>1. /\ DOMAIN f = {"type", "destination"} \cup OfDestination(destination) \cup Common
      /\ OfDestination(f["destination"]) = OfDestination(destination)
      /\ \A key \in DOMAIN f : FieldHolds(key, f[key])
  BY <1>f, StreamFieldsTyped
<1>2. DOMAIN f = FieldsOf("replace", f)
  BY <1>1 DEF FieldsOf
<1>3. QED
  BY <1>f, <1>1, <1>2, SheetIsSheet

LEMMA LogStreamFormTyped ==
    ASSUME OperationAssumption, mirror \in Mirrors
    PROVE  IsSheet(LogStreamForm)
<1>l. PICK log : log = IF mirror.streams["network"] # NoStream THEN "network" ELSE "configuration"
  OBVIOUS
<1>1. log \in LogTypes
  BY <1>l DEF LogTypes
<1>s. PICK shown : shown = mirror.streams[log]
  OBVIOUS
<1>2. shown \in SeenStreams \cup {NoStream}
  BY <1>1, <1>s DEF Mirrors
<1>3. CASE shown = NoStream
  <2>k. PICK kept : kept = [type |-> "network"]
    OBVIOUS
  <2>1. \A key \in DOMAIN kept : FieldHolds(key, kept[key])
    BY <2>k DEF FieldHolds, LogTypes
  <2>2. "splunk" \in Texts
    BY DEF OperationAssumption, Supported
  <2>3. LogStreamForm = Sheet("replace", StreamFields("splunk", kept))
    BY <1>3, <1>l, <1>s, <2>k DEF LogStreamForm
  <2>4. QED
    BY <2>1, <2>2, <2>3, StreamSheet
<1>4. CASE shown # NoStream
  <2>0. shown.destination \in Texts /\ shown.identity \in Texts
    BY <1>2, <1>4 DEF SeenStreams
  <2>k. PICK kept : kept = [type |-> log, url |-> shown.identity]
    OBVIOUS
  <2>1. DOMAIN kept = {"type", "url"} /\ kept["type"] \in LogTypes /\ kept["url"] \in Texts
    BY <1>1, <2>0, <2>k
  <2>2. \A key \in DOMAIN kept : FieldHolds(key, kept[key])
    BY <2>1 DEF FieldHolds
  <2>3. LogStreamForm = Sheet("replace", StreamFields(shown.destination, kept))
    BY <1>4, <1>l, <1>s, <2>k DEF LogStreamForm
  <2>4. QED
    BY <2>0, <2>2, <2>3, StreamSheet
<1>5. QED
  BY <1>3, <1>4

LEMMA NetworkLogFormTyped ==
    ASSUME OperationAssumption, mirror \in Mirrors
    PROVE  IsSheet(NetworkLogForm)
<1>v. PICK v : v = [enabled |-> mirror.logging]
  OBVIOUS
<1>1. DOMAIN v = {"enabled"} /\ v["enabled"] \in BOOLEAN
  BY <1>v DEF Mirrors
<1>2. DOMAIN v = FieldsOf("logging", v) /\ \A key \in DOMAIN v : FieldHolds(key, v[key])
  BY <1>1 DEF FieldsOf, FieldHolds
<1>3. NetworkLogForm = Sheet("logging", v)
  BY <1>v DEF NetworkLogForm
<1>4. QED
  BY <1>2, <1>3, SheetIsSheet

LEMMA OpenFormInv ==
    ASSUME OperationAssumption, OperationInv, NEW kind \in {"create", "edit", "replace", "logging"}, OpenForm(kind)
    PROVE  OperationInv'
<1>0. /\ Consume("asks") /\ (kind = "edit" => HasWebhook) /\ UNCHANGED <<remote, approval, errand>>
      /\ mirror' = mirror /\ renewing' = renewing
      /\ sheet' = CASE kind \in {"create", "edit"} -> WebhookForm(kind)
                    [] kind = "replace"            -> LogStreamForm
                    [] kind = "logging"            -> NetworkLogForm
  BY DEF OpenForm
<1>1. QuotaOK /\ mirror \in Mirrors /\ renewing \in BOOLEAN
  BY DEF OperationInv, OperationTypeOK
<1>2. IsSheet(sheet')
  <2>1. CASE kind \in {"create", "edit"}
    BY <2>1, <1>0, <1>1, WebhookFormTyped
  <2>2. CASE kind = "replace"
    BY <2>2, <1>0, <1>1, LogStreamFormTyped
  <2>3. CASE kind = "logging"
    BY <2>3, <1>0, <1>1, NetworkLogFormTyped
  <2>4. QED
    BY <2>1, <2>2, <2>3
<1>3. QuotaOK'
  BY <1>0, <1>1, QuotaLessens
<1>4. QED
  BY <1>0, <1>1, <1>2, <1>3, ElsewhereInv

\* What is typed goes into fields that are shown; the fields follow the
\* destination that is chosen.
LEMMA FilledTyped ==
    ASSUME OperationAssumption, IsSheet(sheet), NEW fill, \A key \in DOMAIN fill : FieldHolds(key, fill[key])
    PROVE  IsSheet(FilledIn(fill))
<1>a. PICK shown : shown = FieldsShown(fill)
  OBVIOUS
<1>v. PICK values : values = [key \in DOMAIN shown |-> Of(fill, key, shown[key])]
  OBVIOUS
<1>h. PICK hidden : hidden = Of(fill, "secret", sheet.secret)
  OBVIOUS
<1>1. /\ DOMAIN sheet = {"kind", "values", "secret"} /\ sheet.kind \in {"create", "edit", "replace", "logging"}
      /\ DOMAIN sheet.values = FieldsOf(sheet.kind, sheet.values)
      /\ \A key \in DOMAIN sheet.values : FieldHolds(key, sheet.values[key])
      /\ sheet.secret \in Texts
  BY DEF IsSheet
<1>2. hidden \in Texts
  <2>1. "secret" \in DOMAIN fill => fill["secret"] \in Texts
    BY DEF FieldHolds
  <2>2. QED
    BY <1>1, <1>h, <2>1 DEF Of
<1>3. /\ \A key \in DOMAIN shown : FieldHolds(key, shown[key])
      /\ DOMAIN values = DOMAIN shown
      /\ DOMAIN values = FieldsOf(sheet.kind, values)
  <2>1. CASE sheet.kind = "replace"
    <3>d. PICK destination : destination = Of(fill, "destination", sheet.values["destination"])
      OBVIOUS
    <3>1. DOMAIN sheet.values = {"type", "destination"} \cup OfDestination(sheet.values["destination"]) \cup Common
      BY <1>1, <2>1 DEF FieldsOf
    <3>2. sheet.values["destination"] \in Texts
      BY <1>1, <3>1 DEF FieldHolds
    <3>3. destination \in Texts
      <4>1. "destination" \in DOMAIN fill => fill["destination"] \in Texts
        BY DEF FieldHolds
      <4>2. QED
        BY <3>2, <3>d, <4>1 DEF Of
    <3>4. shown = StreamFields(destination, sheet.values)
      BY <2>1, <1>a, <3>d DEF FieldsShown
    <3>5. /\ DOMAIN shown = {"type", "destination"} \cup OfDestination(destination) \cup Common
          /\ OfDestination(shown["destination"]) = OfDestination(destination)
          /\ \A key \in DOMAIN shown : FieldHolds(key, shown[key])
      BY <1>1, <3>3, <3>4, StreamFieldsTyped
    <3>6. DOMAIN values = DOMAIN shown /\ values["destination"] = Of(fill, "destination", shown["destination"])
      BY <1>v, <3>5
    <3>7. OfDestination(values["destination"]) = OfDestination(destination)
      BY <3>5, <3>6, <3>d DEF Of
    <3>8. DOMAIN values = FieldsOf("replace", values)
      BY <3>5, <3>6, <3>7 DEF FieldsOf
    <3>9. QED
      BY <2>1, <3>5, <3>6, <3>8
  <2>2. CASE sheet.kind # "replace"
    <3>1. shown = sheet.values /\ DOMAIN values = DOMAIN shown
      BY <2>2, <1>a, <1>v DEF FieldsShown
    <3>2. FieldsOf(sheet.kind, values) = FieldsOf(sheet.kind, sheet.values)
      BY <1>1, <2>2 DEF FieldsOf
    <3>3. QED
      BY <1>1, <3>1, <3>2
  <2>3. QED
    BY <2>1, <2>2
<1>4. \A key \in DOMAIN values : FieldHolds(key, values[key])
  <2>1. ASSUME NEW key \in DOMAIN values PROVE FieldHolds(key, values[key])
    <3>1. values[key] = Of(fill, key, shown[key]) /\ FieldHolds(key, shown[key])
      BY <1>3, <1>v
    <3>2. CASE key \in DOMAIN fill
      <4>1. values[key] = fill[key] /\ FieldHolds(key, fill[key])
        BY <3>1, <3>2 DEF Of
      <4>2. QED
        BY <4>1
    <3>3. CASE key \notin DOMAIN fill
      <4>1. values[key] = shown[key]
        BY <3>1, <3>3 DEF Of
      <4>2. QED
        BY <3>1, <4>1
    <3>4. QED
      BY <3>2, <3>3
  <2>2. QED
    BY <2>1
<1>5. FilledIn(fill) = [sheet EXCEPT !.values = values, !.secret = hidden]
  BY <1>a, <1>v, <1>h DEF FilledIn
<1>s. PICK s : s = FilledIn(fill)
  OBVIOUS
<1>6. DOMAIN s = {"kind", "values", "secret"} /\ s.kind = sheet.kind /\ s.values = values /\ s.secret = hidden
  BY <1>1, <1>5, <1>s
<1>7. QED
  BY <1>1, <1>2, <1>3, <1>4, <1>6, <1>s DEF IsSheet

LEMMA FillInInv == ASSUME OperationAssumption, OperationInv, FillIn PROVE OperationInv'
<1>0. sheet # NoSheet /\ UNCHANGED <<remote, approval, errand>> /\ mirror' = mirror /\ renewing' = renewing
  BY DEF FillIn
<1>1. QuotaOK /\ mirror \in Mirrors /\ renewing \in BOOLEAN /\ IsSheet(sheet)
  BY <1>0 DEF OperationInv, OperationTypeOK
<1>f. PICK fill \in quota.fills : sheet' = FilledIn(fill) /\ quota' = [quota EXCEPT !.fills = @ \ {fill}]
  BY DEF FillIn
<1>b. PICK b \in OperationBounds : DOMAIN quota = DOMAIN b /\ quota.fills \subseteq b.fills
  BY <1>1 DEF QuotaOK
<1>2. /\ DOMAIN quota = {"kinds", "fills", "asks", "refreshes", "faults", "hands", "start"}
      /\ \A key \in DOMAIN fill : FieldHolds(key, fill[key])
  BY <1>b, <1>f DEF OperationAssumption
<1>3. QuotaOK'
  <2>1. DOMAIN quota' = DOMAIN quota /\ quota'.fills \subseteq quota.fills
    BY <1>2, <1>f
  <2>2. quota'.asks = quota.asks /\ quota'.refreshes = quota.refreshes /\ quota'.faults = quota.faults /\ quota'.hands = quota.hands
    BY <1>2, <1>f
  <2>3. DOMAIN quota' = DOMAIN b /\ quota'.fills \subseteq b.fills
    BY <1>b, <2>1
  <2>4. {quota'.asks, quota'.refreshes, quota'.faults, quota'.hands} \subseteq Nat
    BY <1>1, <2>2 DEF QuotaOK
  <2>5. QED
    BY <1>b, <2>3, <2>4 DEF QuotaOK
<1>4. IsSheet(sheet')
  BY <1>1, <1>2, <1>f, FilledTyped
<1>5. QED
  BY <1>0, <1>1, <1>3, <1>4, ElsewhereInv

-----------------------------------------------------------------------------
(* Operational requests: what is reviewed *)

\* A step that changes nothing but the form and what is reviewed.
LEMMA ReviewInv ==
    ASSUME OperationInv, UNCHANGED <<remote, mirror, renewing, errand>>, QuotaOK', (sheet = NoSheet \/ IsSheet(sheet))',
           (approval \in Approvals \cup {NoApproval})', ReviewFromForm'
    PROVE  OperationInv'
<1>1. /\ remote' = remote /\ mirror' = mirror /\ renewing' = renewing /\ errand' = errand
      /\ remote \in Tailnets /\ mirror \in Mirrors /\ renewing \in BOOLEAN /\ errand \in ErrandStates \cup {NoErrand}
      /\ OwnIds(remote)
      /\ errand # NoErrand => SaysItself(errand) /\ SaysTruly(errand, remote)
  BY DEF OperationInv, OperationTypeOK
<1>2. QED
  BY <1>1 DEF OperationInv, OperationTypeOK

LEMMA ReviewShown ==
    ASSUME NEW asked \in OperationAsks, FromForm(asked), Approve(asked)
    PROVE  approval' \in Approvals /\ ReviewFromForm'
<1>1. approval' = [kind |-> asked.kind, request |-> asked, current |-> TRUE]
  BY DEF Approve
<1>2. asked.kind \in OperationKinds
  BY AskFields DEF OperationKinds
<1>3. approval' \in Approvals /\ approval'.kind = asked.kind /\ approval'.request = asked
  BY <1>1, <1>2 DEF Approvals
<1>4. QED
  BY <1>3 DEF ReviewFromForm

LEMMA NamesSubscribed ==
    ASSUME NEW categories \in SUBSET Texts, NEW events \in SUBSET Texts
    PROVE  SubscriptionSet(categories, events) \in Subscriptions
<1>1. /\ categories \cap Known \in SUBSET Known /\ events \cap Known \in SUBSET Known
      /\ categories \ Known \in SUBSET Texts /\ events \ Known \in SUBSET Texts
  OBVIOUS
<1>2. QED
  BY <1>1 DEF SubscriptionSet, Subscriptions

\* An edit keeps what this Tale does not know.
LEMMA EditKeeps ==
    ASSUME NEW before \in Subscriptions, NEW categories \in SUBSET Texts, NEW events \in SUBSET Texts
    PROVE  /\ EditKnown(before, categories, events) \in Subscriptions
           /\ WireSubscriptions(before) \ Known \subseteq WireSubscriptions(EditKnown(before, categories, events))
<1>t. PICK typed \in Subscriptions : typed = SubscriptionSet(categories, events)
  BY NamesSubscribed
<1>c. PICK c : c = typed.unknown_categories \cup before.unknown_categories
  OBVIOUS
<1>e. PICK e : e = typed.unknown_events \cup before.unknown_events
  OBVIOUS
<1>a. PICK after : after = [typed EXCEPT !.unknown_categories = c, !.unknown_events = e]
  OBVIOUS
<1>1. EditKnown(before, categories, events) = after
  BY <1>t, <1>c, <1>e, <1>a DEF EditKnown
<1>2. c \in SUBSET Texts /\ e \in SUBSET Texts /\ before.unknown_categories \subseteq c /\ before.unknown_events \subseteq e
  BY <1>t, <1>c, <1>e DEF Subscriptions
<1>3. after \in Subscriptions /\ after.unknown_categories = c /\ after.unknown_events = e
  BY <1>t, <1>a, <1>2 DEF Subscriptions
<1>4. before.categories \subseteq Known /\ before.events \subseteq Known
  BY DEF Subscriptions
<1>5. WireSubscriptions(before) \ Known \subseteq WireSubscriptions(after)
  BY <1>2, <1>3, <1>4 DEF WireSubscriptions, WireCategories, WireEvents
<1>6. QED
  BY <1>1, <1>3, <1>5

LEMMA EditAskedTyped ==
    ASSUME OperationAssumption, mirror \in Mirrors, HasWebhook, NEW values,
           values["categories"] \in SUBSET Texts, values["events"] \in SUBSET Texts
    PROVE  EditAsked(values) \in Edits /\ FromForm(EditAsked(values))
<1>1. SelectedWebhook \in SeenHooks
  <2>1. mirror.hooks \in Seq(SeenHooks) /\ mirror.hooks # <<>>
    BY DEF HasWebhook, Mirrors
  <2>2. QED
    BY <2>1 DEF SelectedWebhook
<1>b. PICK before \in Subscriptions : before = SelectedWebhook.subscriptions
  BY <1>1 DEF SeenHooks
<1>i. PICK id \in Nat : id = SelectedWebhook.id
  BY <1>1 DEF SeenHooks
<1>a. PICK after : after = EditKnown(before, values["categories"], values["events"])
  OBVIOUS
<1>2. after \in Subscriptions /\ WireSubscriptions(before) \ Known \subseteq WireSubscriptions(after)
  BY <1>b, <1>a, EditKeeps
<1>e. PICK asked : asked = EditAsked(values)
  OBVIOUS
<1>3. asked = [kind |-> "edit", id |-> id, before |-> before, after |-> after]
  BY <1>b, <1>i, <1>a, <1>e DEF EditAsked
<1>4. asked \in Edits /\ asked.kind = "edit" /\ asked.before = before /\ asked.after = after
  BY <1>2, <1>3, <1>b, <1>i DEF Edits
<1>5. FromForm(asked)
  BY <1>2, <1>4 DEF FromForm
<1>6. QED
  BY <1>4, <1>5, <1>e

LEMMA CreateAskedTyped ==
    ASSUME NEW values, values["url"] \in Texts, values["provider"] \in Texts,
           values["categories"] \in SUBSET Texts, values["events"] \in SUBSET Texts
    PROVE  CreateAsked(values) \in Creations /\ FromForm(CreateAsked(values))
<1>1. SubscriptionSet(values["categories"], values["events"]) \in Subscriptions
  BY NamesSubscribed
<1>e. PICK asked : asked = CreateAsked(values)
  OBVIOUS
<1>2. asked \in Creations /\ asked.kind = "create"
  BY <1>1, <1>e DEF CreateAsked, Creations
<1>3. QED
  BY <1>2, <1>e DEF FromForm

LEMMA StreamDraftTyped ==
    ASSUME OperationAssumption, NEW values, NEW hidden \in Texts, DOMAIN values = FieldsOf("replace", values),
           \A key \in DOMAIN values : FieldHolds(key, values[key])
    PROVE  StreamDraft(values, hidden) \in Replacements /\ FromForm(StreamDraft(values, hidden))
<1>1. DOMAIN values = {"type", "destination"} \cup OfDestination(values["destination"]) \cup Common
  BY DEF FieldsOf
<1>2. values["type"] \in LogTypes /\ values["destination"] \in Texts
  BY <1>1 DEF FieldHolds
<1>f. PICK fields : fields = [key \in StreamKeys |-> Of(values, key, NotSet)]
  OBVIOUS
<1>3. fields \in [StreamKeys -> Texts]
  <2>1. ASSUME NEW key \in StreamKeys PROVE Of(values, key, NotSet) \in Texts
    <3>1. NotSet \in Texts
      BY DEF OperationAssumption
    <3>2. key \notin {"categories", "events", "enabled", "type"}
      BY DEF StreamKeys, OfDestination, Common
    <3>3. key \in DOMAIN values => values[key] \in Texts
      BY <3>2 DEF FieldHolds
    <3>4. QED
      BY <3>1, <3>3 DEF Of
  <2>2. QED
    BY <2>1, <1>f
<1>d. PICK asked : asked = StreamDraft(values, hidden)
  OBVIOUS
<1>4. asked = [kind |-> "replace", log |-> values["type"], destination |-> values["destination"], fields |-> fields, secret |-> hidden]
  BY <1>f, <1>d DEF StreamDraft
<1>5. asked \in Replacements /\ asked.kind = "replace" /\ asked.destination = values["destination"] /\ asked.fields = fields
  BY <1>2, <1>3, <1>4 DEF Replacements
<1>6. values["destination"] = "gcs" => fields["s3-bucket"] = NotSet
  <2>1. "s3-bucket" \in StreamKeys
    BY DEF StreamKeys, OfDestination
  <2>2. values["destination"] = "gcs" => "s3-bucket" \notin DOMAIN values
    BY <1>1 DEF OfDestination, Common
  <2>3. QED
    BY <2>1, <2>2, <1>f DEF Of
<1>7. FromForm(asked)
  BY <1>5, <1>6 DEF FromForm
<1>8. QED
  BY <1>5, <1>7, <1>d

LEMMA AcceptSheetInv == ASSUME OperationAssumption, OperationInv, AcceptSheet PROVE OperationInv'
<1>0. /\ sheet' = NoSheet /\ UNCHANGED <<remote, mirror, renewing, errand>> /\ quota' = quota
      /\ sheet.kind \in {"create", "edit", "replace", "logging"}
  BY DEF AcceptSheet
<1>1. QuotaOK /\ mirror \in Mirrors /\ IsSheet(sheet)
  BY <1>0 DEF OperationInv, OperationTypeOK, NoSheet
<1>2. /\ DOMAIN sheet.values = FieldsOf(sheet.kind, sheet.values)
      /\ \A key \in DOMAIN sheet.values : FieldHolds(key, sheet.values[key])
      /\ sheet.secret \in Texts
  BY <1>1 DEF IsSheet
<1>3. \E asked \in OperationAsks : FromForm(asked) /\ Approve(asked)
  <2>1. CASE sheet.kind = "create"
    <3>1. Approve(CreateAsked(sheet.values))
      BY <2>1 DEF AcceptSheet
    <3>2. DOMAIN sheet.values = {"url", "provider", "categories", "events"}
      BY <1>2, <2>1 DEF FieldsOf
    <3>3. /\ sheet.values["url"] \in Texts /\ sheet.values["provider"] \in Texts
          /\ sheet.values["categories"] \in SUBSET Texts /\ sheet.values["events"] \in SUBSET Texts
      BY <1>2, <3>2 DEF FieldHolds
    <3>4. CreateAsked(sheet.values) \in Creations /\ FromForm(CreateAsked(sheet.values))
      BY <3>3, CreateAskedTyped
    <3>5. QED
      BY <3>1, <3>4 DEF OperationAsks
  <2>2. CASE sheet.kind = "edit"
    <3>1. HasWebhook /\ Approve(EditAsked(sheet.values))
      BY <2>2 DEF AcceptSheet
    <3>2. DOMAIN sheet.values = {"categories", "events"}
      BY <1>2, <2>2 DEF FieldsOf
    <3>3. sheet.values["categories"] \in SUBSET Texts /\ sheet.values["events"] \in SUBSET Texts
      BY <1>2, <3>2 DEF FieldHolds
    <3>4. EditAsked(sheet.values) \in Edits /\ FromForm(EditAsked(sheet.values))
      BY <1>1, <3>1, <3>3, EditAskedTyped
    <3>5. QED
      BY <3>1, <3>4 DEF OperationAsks
  <2>3. CASE sheet.kind = "replace"
    <3>1. Approve(StreamDraft(sheet.values, sheet.secret))
      BY <2>3 DEF AcceptSheet
    <3>2. StreamDraft(sheet.values, sheet.secret) \in Replacements /\ FromForm(StreamDraft(sheet.values, sheet.secret))
      BY <1>2, <2>3, StreamDraftTyped
    <3>3. QED
      BY <3>1, <3>2 DEF OperationAsks
  <2>4. CASE sheet.kind = "logging"
    <3>e. PICK asked : asked = [kind |-> "logging", enabled |-> sheet.values["enabled"]]
      OBVIOUS
    <3>1. Approve(asked)
      BY <2>4, <3>e DEF AcceptSheet
    <3>2. DOMAIN sheet.values = {"enabled"}
      BY <1>2, <2>4 DEF FieldsOf
    <3>3. sheet.values["enabled"] \in BOOLEAN
      BY <1>2, <3>2 DEF FieldHolds
    <3>4. asked \in Switches /\ asked.kind = "logging"
      BY <3>e, <3>3 DEF Switches
    <3>5. QED
      BY <3>1, <3>4 DEF OperationAsks, FromForm
  <2>5. QED
    BY <1>0, <2>1, <2>2, <2>3, <2>4
<1>4. approval' \in Approvals /\ ReviewFromForm'
  BY <1>3, ReviewShown
<1>5. QuotaOK'
  BY <1>0, <1>1, QuotaStays
<1>6. QED
  BY <1>0, <1>4, <1>5, ReviewInv

LEMMA ReviewOutrightInv ==
    ASSUME OperationAssumption, OperationInv, NEW kind \in {"test", "rotate", "delete", "unstream"}, ReviewOutright(kind)
    PROVE  OperationInv'
<1>0. /\ Consume("asks") /\ UNCHANGED <<remote, mirror, renewing, errand>> /\ sheet' = sheet
      /\ kind \in {"test", "rotate", "delete"} => HasWebhook
  BY DEF ReviewOutright
<1>1. QuotaOK /\ mirror \in Mirrors /\ (sheet = NoSheet \/ IsSheet(sheet))
  BY DEF OperationInv, OperationTypeOK
<1>e. PICK asked : asked = IF kind = "unstream"
                           THEN [kind |-> kind, log |-> IF mirror.streams["configuration"] # NoStream THEN "configuration" ELSE "network"]
                           ELSE [kind |-> kind, id |-> SelectedWebhook.id]
  OBVIOUS
<1>2. Approve(asked)
  BY <1>e DEF ReviewOutright
<1>3. asked \in OperationAsks /\ asked.kind = kind
  <2>1. CASE kind = "unstream"
    <3>l. PICK log : log = IF mirror.streams["configuration"] # NoStream THEN "configuration" ELSE "network"
      OBVIOUS
    <3>1. log \in LogTypes
      BY <3>l DEF LogTypes
    <3>2. asked = [kind |-> "unstream", log |-> log]
      BY <2>1, <3>l, <1>e
    <3>3. QED
      BY <2>1, <3>1, <3>2 DEF OperationAsks, Removals
  <2>2. CASE kind # "unstream"
    <3>1. SelectedWebhook \in SeenHooks
      <4>1. mirror.hooks \in Seq(SeenHooks) /\ mirror.hooks # <<>>
        BY <1>0, <1>1, <2>2 DEF HasWebhook, Mirrors
      <4>2. QED
        BY <4>1 DEF SelectedWebhook
    <3>2. SelectedWebhook.id \in Nat
      BY <3>1 DEF SeenHooks
    <3>3. asked = [kind |-> kind, id |-> SelectedWebhook.id] /\ kind \in {"test", "rotate", "delete"}
      BY <2>2, <1>e
    <3>4. QED
      BY <3>2, <3>3 DEF OperationAsks, Endpointed
  <2>3. QED
    BY <2>1, <2>2
<1>4. FromForm(asked)
  BY <1>3 DEF FromForm
<1>5. approval' \in Approvals /\ ReviewFromForm'
  BY <1>2, <1>3, <1>4, ReviewShown
<1>6. QuotaOK'
  BY <1>0, <1>1, QuotaLessens
<1>7. QED
  BY <1>0, <1>1, <1>5, <1>6, ReviewInv

LEMMA CloseSheetInv == ASSUME OperationInv, CloseSheet PROVE OperationInv'
<1>0. /\ sheet' = NoSheet /\ approval' = NoApproval /\ UNCHANGED <<remote, mirror, renewing, errand>> /\ quota' = quota
  BY DEF CloseSheet
<1>1. QuotaOK'
  BY <1>0, QuotaStays DEF OperationInv, OperationTypeOK
<1>2. ReviewFromForm'
  BY <1>0 DEF ReviewFromForm
<1>3. QED
  BY <1>0, <1>1, <1>2, ReviewInv

\* What is confirmed is what was reviewed.
LEMMA ConfirmErrandInv == ASSUME OperationInv, ConfirmErrand PROVE OperationInv'
<1>0. /\ approval # NoApproval /\ approval' = NoApproval
      /\ quota' = quota /\ remote' = remote /\ mirror' = mirror /\ renewing' = renewing /\ sheet' = sheet
      /\ errand' = [request |-> approval.request, step |-> "write", current |-> TRUE, sent |-> "no", id |-> 0, saw |-> "none", found |-> 0,
                    result |-> "none", told |-> "none", alone |-> TRUE, was |-> remote]
  BY DEF ConfirmErrand
<1>1. /\ QuotaOK /\ remote \in Tailnets /\ mirror \in Mirrors /\ renewing \in BOOLEAN /\ (sheet = NoSheet \/ IsSheet(sheet))
      /\ OwnIds(remote) /\ approval \in Approvals /\ FromForm(approval.request)
  BY <1>0 DEF OperationInv, OperationTypeOK, ReviewFromForm
<1>r. PICK asked \in OperationAsks : asked = approval.request
  BY <1>1 DEF Approvals
<1>2. errand' = [request |-> asked, step |-> "write", current |-> TRUE, sent |-> "no", id |-> 0, saw |-> "none", found |-> 0,
                 result |-> "none", told |-> "none", alone |-> TRUE, was |-> remote]
  BY <1>0, <1>r
<1>3. /\ errand' \in ErrandStates /\ errand'.request = asked /\ errand'.step = "write" /\ errand'.sent = "no"
      /\ errand'.result = "none" /\ errand'.told = "none" /\ errand'.was = remote /\ errand'.alone = TRUE
  BY <1>1, <1>2, <1>r DEF ErrandStates
<1>4. SaysItself(errand')
  BY <1>1, <1>3, <1>r DEF SaysItself
<1>5. SaysTruly(errand', remote)
  BY <1>3 DEF SaysTruly
<1>6. QuotaOK' /\ ReviewFromForm'
  BY <1>0, <1>1, QuotaStays DEF ReviewFromForm
<1>7. QED
  BY <1>0, <1>1, <1>3, <1>4, <1>5, <1>6 DEF OperationInv, OperationTypeOK

-----------------------------------------------------------------------------
(* Operational requests: the write *)

LEMMA ExistsHere == ASSUME NEW asked PROVE Exists(asked) <=> ExistsIn(remote, asked)
BY DEF Exists, ExistsIn

LEMMA EffectHere == ASSUME NEW asked PROVE Effected(asked) = EffectIn(remote, asked)
BY DEF Effected, EffectIn, Created, Edited, Deleted, Replaced, Unstreamed, Switched

\* A step of the operation that leaves the review alone.
LEMMA ErrandInv ==
    ASSUME OperationInv, UNCHANGED <<sheet, approval>>, QuotaOK', mirror' \in Mirrors, renewing' \in BOOLEAN,
           remote' \in Tailnets, OwnIds(remote'), errand' \in ErrandStates, SaysItself(errand'), SaysTruly(errand', remote')
    PROVE  OperationInv'
<1>1. /\ sheet' = sheet /\ approval' = approval /\ (sheet = NoSheet \/ IsSheet(sheet))
      /\ approval \in Approvals \cup {NoApproval} /\ ReviewFromForm
  BY DEF OperationInv, OperationTypeOK
<1>2. ReviewFromForm'
  BY <1>1 DEF ReviewFromForm
<1>3. QED
  BY <1>1, <1>2 DEF OperationInv, OperationTypeOK

LEMMA AtWork ==
    ASSUME OperationInv, errand.step \in {"write", "first", "second", "answered"}
    PROVE  /\ errand \in ErrandStates /\ errand.request \in OperationAsks /\ SaysItself(errand) /\ SaysTruly(errand, remote)
           /\ FromForm(errand.request)
<1>1. errand # NoErrand /\ errand \in ErrandStates
  BY DEF OperationInv, OperationTypeOK, NoErrand
<1>2. SaysItself(errand) /\ SaysTruly(errand, remote)
  BY <1>1 DEF OperationInv
<1>3. errand.request \in OperationAsks
  BY <1>1 DEF ErrandStates
<1>4. QED
  BY <1>1, <1>2, <1>3 DEF SaysItself

LEMMA WroteTyped ==
    ASSUME OperationInv, errand.step = "write", NEW sent \in {"accepted", "refused", "lost"}, NEW step \in {"first", "answered"},
           NEW result \in {"none", "Failed", "Unknown"}, NEW took \in BOOLEAN, Wrote(sent, step, result, took)
    PROVE  /\ errand' \in ErrandStates
           /\ errand'.request = errand.request /\ errand'.step = step /\ errand'.sent = sent /\ errand'.result = result
           /\ errand'.told = "none" /\ errand'.was = remote /\ errand'.saw = errand.saw
           /\ remote' = IF took THEN Effected(errand.request) ELSE remote
           /\ UNCHANGED <<mirror, renewing, sheet, approval>>
<1>0. errand \in ErrandStates /\ errand.told = "none"
  BY AtWork DEF SaysItself
<1>1. remote \in Tailnets /\ remote.next \in Nat
  BY TailnetParts DEF OperationInv, OperationTypeOK
<1>i. PICK id \in Nat : id = IF sent = "accepted" /\ errand.request.kind = "create" THEN remote.next ELSE 0
  BY <1>1
<1>2. /\ errand' = [errand EXCEPT !.sent = sent, !.step = step, !.result = result, !.id = id, !.was = remote, !.alone = TRUE]
      /\ remote' = IF took THEN Effected(errand.request) ELSE remote
      /\ UNCHANGED <<mirror, renewing, sheet, approval>>
  BY <1>i DEF Wrote
<1>3. /\ errand' \in ErrandStates
      /\ errand'.request = errand.request /\ errand'.step = step /\ errand'.sent = sent /\ errand'.result = result
      /\ errand'.told = errand.told /\ errand'.was = remote /\ errand'.saw = errand.saw
  BY <1>0, <1>1, <1>2, <1>i DEF ErrandStates
<1>4. QED
  BY <1>0, <1>2, <1>3

\* A write that was taken did what was asked.
LEMMA TookInv ==
    ASSUME OperationAssumption, OperationInv, errand.step = "write", NEW sent \in {"accepted", "lost"}, NEW step \in {"first", "answered"},
           NEW result \in {"none", "Unknown"}, step = "first" => result = "none", sent = "accepted" => step = "first",
           FitToSend(errand.request), Exists(errand.request), Wrote(sent, step, result, TRUE), QuotaOK'
    PROVE  OperationInv'
<1>1. /\ errand' \in ErrandStates
      /\ errand'.request = errand.request /\ errand'.step = step /\ errand'.sent = sent /\ errand'.result = result
      /\ errand'.told = "none" /\ errand'.was = remote /\ errand'.saw = errand.saw
      /\ remote' = Effected(errand.request)
      /\ UNCHANGED <<mirror, renewing, sheet, approval>>
  BY WroteTyped
<1>2. errand.request \in OperationAsks /\ FromForm(errand.request)
  BY AtWork
<1>3. remote \in Tailnets /\ OwnIds(remote) /\ mirror \in Mirrors /\ renewing \in BOOLEAN
  BY DEF OperationInv, OperationTypeOK
<1>4. DoesIt(errand.request, remote, EffectIn(remote, errand.request))
  BY <1>2, <1>3, ExistsHere, WriteDoesIt
<1>5. remote' = EffectIn(remote, errand.request)
  BY <1>1, EffectHere
<1>6. /\ remote' \in Tailnets /\ OwnIds(remote') /\ HoldsIn(remote', "accepted", errand.request)
      /\ OthersIn(remote', remote.next, errand.request) = OthersIn(remote, remote.next, errand.request)
  BY <1>4, <1>5 DEF DoesIt
<1>7. SaysItself(errand')
  BY <1>1, <1>2 DEF SaysItself
<1>8. SaysTruly(errand', remote')
  BY <1>1, <1>6 DEF SaysTruly
<1>9. QED
  BY <1>1, <1>3, <1>6, <1>7, <1>8, ErrandInv

\* A write that was not, did nothing.
LEMMA NotTakenInv ==
    ASSUME OperationInv, errand.step = "write", NEW sent \in {"refused", "lost"}, NEW step \in {"first", "answered"},
           NEW result \in {"none", "Failed", "Unknown"}, step = "first" => result = "none" /\ sent = "lost",
           result = "Failed" => sent = "refused", Wrote(sent, step, result, FALSE), QuotaOK'
    PROVE  OperationInv'
<1>1. /\ errand' \in ErrandStates
      /\ errand'.request = errand.request /\ errand'.step = step /\ errand'.sent = sent /\ errand'.result = result
      /\ errand'.told = "none" /\ errand'.was = remote /\ errand'.saw = errand.saw
      /\ remote' = remote
      /\ UNCHANGED <<mirror, renewing, sheet, approval>>
  BY WroteTyped
<1>2. FromForm(errand.request)
  BY AtWork
<1>3. remote \in Tailnets /\ OwnIds(remote) /\ mirror \in Mirrors /\ renewing \in BOOLEAN
  BY DEF OperationInv, OperationTypeOK
<1>4. SaysItself(errand')
  BY <1>1, <1>2 DEF SaysItself
<1>5. SaysTruly(errand', remote')
  BY <1>1 DEF SaysTruly
<1>6. QED
  BY <1>1, <1>3, <1>4, <1>5, ErrandInv

LEMMA WriteInv ==
    ASSUME OperationAssumption, OperationInv, WriteAccepted \/ WriteRefused \/ WriteLost
    PROVE  OperationInv'
<1>0. QuotaOK
  BY DEF OperationInv, OperationTypeOK
<1>1. CASE WriteAccepted
  <2>1. errand.step = "write" /\ FitToSend(errand.request) /\ Exists(errand.request) /\ Wrote("accepted", "first", "none", TRUE) /\ UNCHANGED quota
    BY <1>1 DEF WriteAccepted
  <2>2. QuotaOK'
    BY <1>0, <2>1, QuotaStays
  <2>3. QED
    BY <2>1, <2>2, TookInv
<1>2. CASE WriteRefused
  <2>1. errand.step = "write" /\ Wrote("refused", "answered", "Failed", FALSE) /\ (Consume("faults") \/ UNCHANGED quota)
    BY <1>2 DEF WriteRefused
  <2>2. QuotaOK'
    BY <1>0, <2>1, QuotaStays, QuotaLessens
  <2>3. QED
    BY <2>1, <2>2, NotTakenInv
<1>3. CASE WriteLost
  <2>1. errand.step = "write" /\ FitToSend(errand.request) /\ Consume("faults")
    BY <1>3 DEF WriteLost
  <2>2. QuotaOK'
    BY <1>0, <2>1, QuotaLessens
  <2>t. PICK took \in BOOLEAN :
           /\ took => Exists(errand.request)
           /\ IF errand.request.kind \in {"test", "rotate"} THEN Wrote("lost", "answered", "Unknown", took)
              ELSE Wrote("lost", "first", "none", took)
    BY <1>3 DEF WriteLost
  <2>4. CASE took
    <3>1. took = TRUE
      BY <2>4
    <3>2. Wrote("lost", "answered", "Unknown", TRUE) \/ Wrote("lost", "first", "none", TRUE)
      BY <2>t, <3>1
    <3>3. QED
      BY <2>1, <2>2, <2>t, <2>4, <3>2, TookInv
  <2>5. CASE ~took
    <3>1. took = FALSE
      BY <2>5, <2>t
    <3>2. Wrote("lost", "answered", "Unknown", FALSE) \/ Wrote("lost", "first", "none", FALSE)
      BY <2>t, <3>1
    <3>3. QED
      BY <2>1, <2>2, <3>2, NotTakenInv
  <2>6. QED
    BY <2>4, <2>5
<1>4. QED
  BY <1>1, <1>2, <1>3

-----------------------------------------------------------------------------
(* Operational requests: the reads and the answer *)

\* What a first read that matches has seen of a stream.
LEMMA FirstReadSaw ==
    ASSUME NEW asked
    PROVE  /\ FirstRead(asked) \in {"match", "other", "absent"}
           /\ FirstRead(asked) = "match" /\ asked.kind = "replace" =>
                 /\ remote.streams[asked.log] # NoStream
                 /\ ConfigurationMatches(asked, AsRead(remote.streams[asked.log]))
<1>1. FirstRead(asked) \in {"match", "other", "absent"}
  <2>1. CASE asked.kind = "create"
    BY <2>1 DEF FirstRead
  <2>2. CASE asked.kind = "edit"
    BY <2>2 DEF FirstRead
  <2>3. CASE asked.kind \in {"rotate", "test"}
    BY <2>3 DEF FirstRead
  <2>4. CASE asked.kind = "delete"
    BY <2>4 DEF FirstRead
  <2>5. CASE asked.kind = "replace"
    BY <2>5 DEF FirstRead
  <2>6. CASE asked.kind = "unstream"
    BY <2>6 DEF FirstRead
  <2>7. CASE asked.kind \notin {"create", "edit", "rotate", "test", "delete", "replace", "unstream"}
    BY <2>7 DEF FirstRead
  <2>8. QED
    BY <2>1, <2>2, <2>3, <2>4, <2>5, <2>6, <2>7
<1>2. ASSUME FirstRead(asked) = "match", asked.kind = "replace"
      PROVE  /\ remote.streams[asked.log] # NoStream
             /\ ConfigurationMatches(asked, AsRead(remote.streams[asked.log]))
  BY <1>2 DEF FirstRead, Stream
<1>3. QED
  BY <1>1, <1>2

\* What is read in the end, with what was read first, is what was asked for.
LEMMA ReadsProve ==
    ASSUME OperationAssumption, remote \in Tailnets, NEW asked \in OperationAsks, NEW sent, sent # "accepted",
           SecondRead(asked) = "match", asked.kind # "create",
           asked.kind = "replace" => /\ remote.streams[asked.log] # NoStream
                                     /\ ConfigurationMatches(asked, AsRead(remote.streams[asked.log]))
    PROVE  HoldsIn(remote, sent, asked)
<1>0. asked.kind \in {"test", "rotate", "delete", "edit", "replace", "unstream", "logging"}
  BY AskFields
<1>1. CASE asked.kind = "edit"
  <2>1. asked.id \in Ids(remote.hooks) /\ Endpoint(WithId(remote.hooks, asked.id)).subscriptions = asked.after
    BY <1>1 DEF SecondRead, Exists
  <2>h. PICK hook \in Webhooks : hook = WithId(remote.hooks, asked.id)
    BY <2>1, TailnetParts, WithItsId
  <2>n. PICK names \in SUBSET Texts : names = hook.subscriptions
    BY <2>h DEF Webhooks
  <2>2. Endpoint(hook).subscriptions = SubscriptionSet({}, names)
    <3>1. Endpoint(hook) = [hook EXCEPT !.subscriptions = SubscriptionSet({}, names)]
      BY <2>n DEF Endpoint
    <3>s. PICK s : s = SubscriptionSet({}, names)
      OBVIOUS
    <3>2. [hook EXCEPT !.subscriptions = s].subscriptions = s
      BY <2>h DEF Webhooks
    <3>3. QED
      BY <3>1, <3>s, <3>2
  <2>3. WireSubscriptions(asked.after) = names
    BY <2>1, <2>2, <2>h, <2>n, NamesComeBack
  <2>4. QED
    BY <1>1, <2>1, <2>3, <2>h, <2>n DEF HoldsIn
<1>2. CASE asked.kind = "delete"
  BY <1>2 DEF SecondRead, Exists, HoldsIn
<1>3. CASE asked.kind = "replace"
  BY <1>3 DEF HoldsIn
<1>4. CASE asked.kind = "unstream"
  BY <1>4 DEF SecondRead, Stream, HoldsIn
<1>5. CASE asked.kind = "logging"
  BY <1>5 DEF SecondRead, HoldsIn
<1>6. CASE asked.kind \in {"test", "rotate"}
  BY <1>6 DEF HoldsIn
<1>7. QED
  BY <1>0, <1>1, <1>2, <1>3, <1>4, <1>5, <1>6

\* A read that proves nothing leads to another round, or to an answer that
\* does not claim what it has not seen.
LEMMA UnprovenSays ==
    ASSUME OperationInv, errand.step \in {"first", "second"},
           errand' = Concluded(FALSE) \/ errand' = [errand EXCEPT !.step = "first", !.saw = "none", !.found = 0]
    PROVE  errand' \in ErrandStates /\ SaysItself(errand') /\ SaysTruly(errand', remote)
<1>0. errand \in ErrandStates /\ SaysItself(errand) /\ SaysTruly(errand, remote)
  BY AtWork
<1>1. CASE errand' = Concluded(FALSE)
  <2>r. PICK result : result = ReconcileWrite(errand.request, FALSE)
    OBVIOUS
  <2>1. result \in {"Unknown", "Unverified"} /\ (errand.sent = "lost" => result = "Unknown")
    BY <2>r DEF ReconcileWrite
  <2>2. errand' = [errand EXCEPT !.step = "answered", !.result = result]
    BY <1>1, <2>r DEF Concluded
  <2>3. /\ errand' \in ErrandStates /\ errand'.step = "answered" /\ errand'.result = result
        /\ errand'.request = errand.request /\ errand'.sent = errand.sent /\ errand'.told = errand.told
        /\ errand'.was = errand.was /\ errand'.alone = errand.alone /\ errand'.saw = errand.saw
    BY <1>0, <2>1, <2>2 DEF ErrandStates
  <2>4. SaysItself(errand')
    BY <1>0, <2>1, <2>3 DEF SaysItself
  <2>5. SaysTruly(errand', remote)
    BY <1>0, <2>1, <2>3 DEF SaysTruly
  <2>6. QED
    BY <2>3, <2>4, <2>5
<1>2. CASE errand' = [errand EXCEPT !.step = "first", !.saw = "none", !.found = 0]
  <2>1. /\ errand' \in ErrandStates /\ errand'.step = "first" /\ errand'.result = errand.result
        /\ errand'.request = errand.request /\ errand'.sent = errand.sent /\ errand'.told = errand.told
        /\ errand'.was = errand.was /\ errand'.alone = errand.alone
    BY <1>0, <1>2 DEF ErrandStates
  <2>2. SaysItself(errand')
    BY <1>0, <2>1 DEF SaysItself
  <2>3. SaysTruly(errand', remote)
    BY <1>0, <2>1 DEF SaysTruly
  <2>4. QED
    BY <2>1, <2>2, <2>3
<1>3. QED
  BY <1>1, <1>2

LEMMA SecondSays ==
    ASSUME OperationInv, errand.step = "first", NEW saw \in {"match", "other"}, NEW found \in Nat,
           saw = "match" /\ errand.request.kind = "replace" =>
              /\ remote.streams[errand.request.log] # NoStream
              /\ ConfigurationMatches(errand.request, AsRead(remote.streams[errand.request.log])),
           errand' = [errand EXCEPT !.step = "second", !.saw = saw, !.found = found]
    PROVE  errand' \in ErrandStates /\ SaysItself(errand') /\ SaysTruly(errand', remote)
<1>0. errand \in ErrandStates /\ SaysItself(errand) /\ SaysTruly(errand, remote)
  BY AtWork
<1>1. /\ errand' \in ErrandStates /\ errand'.step = "second" /\ errand'.saw = saw /\ errand'.result = errand.result
      /\ errand'.request = errand.request /\ errand'.sent = errand.sent /\ errand'.told = errand.told
      /\ errand'.was = errand.was /\ errand'.alone = errand.alone
  BY <1>0 DEF ErrandStates
<1>2. SaysItself(errand')
  BY <1>0, <1>1 DEF SaysItself
<1>3. SaysTruly(errand', remote)
  BY <1>0, <1>1 DEF SaysTruly
<1>4. QED
  BY <1>1, <1>2, <1>3

\* A step of reading changes nothing but the operation.
LEMMA ReadInv ==
    ASSUME OperationInv, ReadOnlyStep, QuotaOK', errand' \in ErrandStates, SaysItself(errand'), SaysTruly(errand', remote)
    PROVE  OperationInv'
<1>1. /\ remote' = remote /\ mirror' = mirror /\ renewing' = renewing /\ UNCHANGED <<sheet, approval>>
      /\ remote \in Tailnets /\ OwnIds(remote) /\ mirror \in Mirrors /\ renewing \in BOOLEAN
  BY DEF OperationInv, OperationTypeOK, ReadOnlyStep
<1>2. QED
  BY <1>1, ErrandInv

LEMMA FirstCheckInv == ASSUME OperationAssumption, OperationInv, FirstCheck PROVE OperationInv'
<1>0. errand.step = "first" /\ ReadOnlyStep
  BY DEF FirstCheck
<1>1. errand \in ErrandStates /\ QuotaOK /\ remote \in Tailnets
  BY <1>0, AtWork DEF OperationInv, OperationTypeOK
<1>2. CASE Consume("faults") /\ Unproven("unread")
  <2>1. QuotaOK'
    BY <1>1, <1>2, QuotaLessens
  <2>2. errand' = Concluded(FALSE) \/ errand' = [errand EXCEPT !.step = "first", !.saw = "none", !.found = 0]
    BY <1>2 DEF Unproven
  <2>3. errand' \in ErrandStates /\ SaysItself(errand') /\ SaysTruly(errand', remote)
    BY <1>0, <2>2, UnprovenSays
  <2>4. QED
    BY <1>0, <2>1, <2>3, ReadInv
<1>3. CASE LET found == FirstRead(errand.request) IN
           /\ IF found = "absent" THEN errand' = Concluded(FALSE)
              ELSE IF errand.request.kind = "create" /\ found = "other" THEN Unproven(found)
              ELSE IF errand.request.kind = "create" THEN
                     \E id \in Candidates(errand.request) : errand' = [errand EXCEPT !.step = "second", !.saw = "match", !.found = id]
              ELSE errand' = [errand EXCEPT !.step = "second", !.saw = found]
           /\ UNCHANGED quota
  <2>f. PICK found : found = FirstRead(errand.request)
    OBVIOUS
  <2>0. QuotaOK'
    BY <1>1, <1>3, QuotaStays
  <2>1. /\ found \in {"match", "other", "absent"}
        /\ found = "match" /\ errand.request.kind = "replace" =>
              /\ remote.streams[errand.request.log] # NoStream
              /\ ConfigurationMatches(errand.request, AsRead(remote.streams[errand.request.log]))
    BY <2>f, FirstReadSaw
  <2>2. CASE found = "absent"
    <3>1. errand' = Concluded(FALSE)
      BY <1>3, <2>2, <2>f
    <3>2. QED
      BY <1>0, <2>0, <3>1, UnprovenSays, ReadInv
  <2>3. CASE found = "other" /\ errand.request.kind = "create"
    <3>1. errand' = Concluded(FALSE) \/ errand' = [errand EXCEPT !.step = "first", !.saw = "none", !.found = 0]
      BY <1>3, <2>3, <2>f DEF Unproven
    <3>2. QED
      BY <1>0, <2>0, <3>1, UnprovenSays, ReadInv
  <2>4. CASE found = "match" /\ errand.request.kind = "create"
    <3>1. PICK id \in Candidates(errand.request) : errand' = [errand EXCEPT !.step = "second", !.saw = "match", !.found = id]
      BY <1>3, <2>4, <2>f
    <3>2. id \in Nat
      <4>1. id \in Ids(remote.hooks)
        BY <3>1 DEF Candidates
      <4>2. QED
        BY <1>1, <4>1, TailnetParts DEF Ids
    <3>3. errand' \in ErrandStates /\ SaysItself(errand') /\ SaysTruly(errand', remote)
      BY <1>0, <2>4, <3>1, <3>2, SecondSays
    <3>4. QED
      BY <1>0, <2>0, <3>3, ReadInv
  <2>5. CASE found # "absent" /\ errand.request.kind # "create"
    <3>1. errand' = [errand EXCEPT !.step = "second", !.saw = found]
      BY <1>3, <2>5, <2>f
    <3>2. PICK number \in Nat : number = errand.found
      BY <1>1 DEF ErrandStates
    <3>3. errand' = [errand EXCEPT !.step = "second", !.saw = found, !.found = number]
      BY <1>1, <3>1, <3>2 DEF ErrandStates
    <3>4. found \in {"match", "other"}
      BY <2>1, <2>5
    <3>5. errand' \in ErrandStates /\ SaysItself(errand') /\ SaysTruly(errand', remote)
      BY <1>0, <2>1, <3>2, <3>3, <3>4, SecondSays
    <3>6. QED
      BY <1>0, <2>0, <3>5, ReadInv
  <2>6. QED
    BY <2>1, <2>2, <2>3, <2>4, <2>5
<1>4. QED
  BY <1>2, <1>3 DEF FirstCheck

LEMMA VerifiedSays ==
    ASSUME OperationAssumption, OperationInv, errand.step = "second", errand.saw # "other", SecondRead(errand.request) = "match",
           errand' = Concluded(TRUE)
    PROVE  errand' \in ErrandStates /\ SaysItself(errand') /\ SaysTruly(errand', remote)
<1>0. errand \in ErrandStates /\ errand.request \in OperationAsks /\ SaysItself(errand) /\ SaysTruly(errand, remote) /\ remote \in Tailnets
  BY AtWork DEF OperationInv, OperationTypeOK
<1>r. PICK result : result = ReconcileWrite(errand.request, TRUE)
  OBVIOUS
<1>1. /\ result \in {"Unknown", "Verified"}
      /\ errand.request.kind = "create" /\ errand.sent = "lost" => result = "Unknown"
  BY <1>r DEF ReconcileWrite
<1>2. errand' = [errand EXCEPT !.step = "answered", !.result = result]
  BY <1>r DEF Concluded
<1>3. /\ errand' \in ErrandStates /\ errand'.step = "answered" /\ errand'.result = result
      /\ errand'.request = errand.request /\ errand'.sent = errand.sent /\ errand'.told = errand.told
      /\ errand'.was = errand.was /\ errand'.alone = errand.alone /\ errand'.saw = errand.saw
  BY <1>0, <1>1, <1>2 DEF ErrandStates
<1>4. SaysItself(errand')
  BY <1>0, <1>1, <1>3 DEF SaysItself
<1>5. ASSUME errand.alone, result = "Verified" PROVE HoldsIn(remote, errand.sent, errand.request)
  <2>1. errand.saw = "match" /\ errand.sent \in {"accepted", "lost"}
    BY <1>0 DEF SaysItself
  <2>2. CASE errand.sent = "accepted"
    BY <1>0, <1>5, <2>2 DEF SaysTruly
  <2>3. CASE errand.sent = "lost"
    <3>1. errand.request.kind # "create"
      BY <1>1, <1>5, <2>3
    <3>2. errand.request.kind = "replace" =>
              /\ remote.streams[errand.request.log] # NoStream
              /\ ConfigurationMatches(errand.request, AsRead(remote.streams[errand.request.log]))
      BY <1>0, <1>5, <2>1 DEF SaysTruly
    <3>3. errand.sent # "accepted"
      BY <2>3
    <3>4. QED
      BY <1>0, <3>1, <3>2, <3>3, ReadsProve
  <2>4. QED
    BY <2>1, <2>2, <2>3
<1>6. SaysTruly(errand', remote)
  BY <1>0, <1>1, <1>3, <1>5 DEF SaysTruly
<1>7. QED
  BY <1>3, <1>4, <1>6

LEMMA SecondCheckInv == ASSUME OperationAssumption, OperationInv, SecondCheck PROVE OperationInv'
<1>0. errand.step = "second" /\ ReadOnlyStep
  BY DEF SecondCheck
<1>1. QuotaOK
  BY DEF OperationInv, OperationTypeOK
<1>2. CASE Consume("faults") /\ Unproven("unread")
  <2>1. QuotaOK'
    BY <1>1, <1>2, QuotaLessens
  <2>2. errand' = Concluded(FALSE) \/ errand' = [errand EXCEPT !.step = "first", !.saw = "none", !.found = 0]
    BY <1>2 DEF Unproven
  <2>3. QED
    BY <1>0, <2>1, <2>2, UnprovenSays, ReadInv
<1>3. CASE LET found == SecondRead(errand.request) IN
           /\ IF found = "match" /\ errand.saw # "other" THEN errand' = Concluded(TRUE) ELSE Unproven(found)
           /\ UNCHANGED quota
  <2>0. QuotaOK'
    BY <1>1, <1>3, QuotaStays
  <2>1. CASE SecondRead(errand.request) = "match" /\ errand.saw # "other"
    <3>1. errand' = Concluded(TRUE)
      BY <1>3, <2>1
    <3>2. QED
      BY <1>0, <2>0, <2>1, <3>1, VerifiedSays, ReadInv
  <2>2. CASE ~(SecondRead(errand.request) = "match" /\ errand.saw # "other")
    <3>1. errand' = Concluded(FALSE) \/ errand' = [errand EXCEPT !.step = "first", !.saw = "none", !.found = 0]
      BY <1>3, <2>2 DEF Unproven
    <3>2. QED
      BY <1>0, <2>0, <3>1, UnprovenSays, ReadInv
  <2>3. QED
    BY <2>1, <2>2
<1>4. QED
  BY <1>2, <1>3 DEF SecondCheck

LEMMA FinishErrandInv == ASSUME OperationAssumption, OperationInv, FinishErrand PROVE OperationInv'
<1>0. /\ errand.step = "answered"
      /\ errand' = [errand EXCEPT !.step = "ended", !.told = IF errand.current THEN errand.result ELSE "elsewhere"]
      /\ UNCHANGED <<sheet, approval>> /\ remote' = remote /\ quota' = quota
      /\ renewing' \in IF errand.current THEN {TRUE, renewing} ELSE {renewing}
  BY DEF FinishErrand
<1>1. errand \in ErrandStates /\ SaysItself(errand) /\ SaysTruly(errand, remote) /\ errand.request \in OperationAsks
  BY <1>0, AtWork
<1>2. QuotaOK /\ remote \in Tailnets /\ OwnIds(remote) /\ mirror \in Mirrors /\ renewing \in BOOLEAN
  BY DEF OperationInv, OperationTypeOK
<1>t. PICK told : told = IF errand.current THEN errand.result ELSE "elsewhere"
  OBVIOUS
<1>3. told \in {"elsewhere", errand.result} /\ told \in {"none", "elsewhere", "Failed", "Unknown", "Verified", "Unverified"}
  BY <1>1, <1>t DEF ErrandStates
<1>4. /\ errand' \in ErrandStates /\ errand'.step = "ended" /\ errand'.told = told
      /\ errand'.request = errand.request /\ errand'.sent = errand.sent /\ errand'.result = errand.result
      /\ errand'.was = errand.was /\ errand'.alone = errand.alone /\ errand'.saw = errand.saw
  BY <1>0, <1>1, <1>3, <1>t DEF ErrandStates
<1>5. SaysItself(errand')
  BY <1>1, <1>3, <1>4 DEF SaysItself
<1>6. SaysTruly(errand', remote')
  BY <1>0, <1>1, <1>4 DEF SaysTruly
<1>7. mirror' \in Mirrors
  <2>1. CASE errand.current /\ errand.result = "Verified"
    <3>1. mirror' = CASE errand.request.kind \in {"create", "edit", "delete", "rotate", "test"} -> Mirrored(LogTypes \cup {"logging"})
                      [] errand.request.kind = "logging" -> [mirror EXCEPT !.logging = errand.request.enabled]
                      [] OTHER -> mirror
      BY <2>1 DEF FinishErrand
    <3>2. CASE errand.request.kind \in {"create", "edit", "delete", "rotate", "test"}
      <4>1. mirror' = Mirrored(LogTypes \cup {"logging"})
        BY <3>1, <3>2
      <4>2. QED
        BY <1>2, <4>1, MirroredTyped
    <3>3. CASE errand.request.kind = "logging"
      <4>1. PICK on \in BOOLEAN : on = errand.request.enabled
        BY <1>1, <3>3, AskFields DEF Switches
      <4>2. mirror' = [mirror EXCEPT !.logging = on]
        BY <3>1, <3>3, <4>1
      <4>3. QED
        BY <1>2, <4>1, <4>2 DEF Mirrors
    <3>4. CASE errand.request.kind \notin {"create", "edit", "delete", "rotate", "test", "logging"}
      BY <1>2, <3>1, <3>4
    <3>5. QED
      BY <3>2, <3>3, <3>4
  <2>2. CASE ~(errand.current /\ errand.result = "Verified")
    BY <1>2, <2>2 DEF FinishErrand
  <2>3. QED
    BY <2>1, <2>2
<1>8. renewing' \in BOOLEAN /\ QuotaOK'
  BY <1>0, <1>2, QuotaStays
<1>9. QED
  BY <1>0, <1>2, <1>4, <1>5, <1>6, <1>7, <1>8, ErrandInv

-----------------------------------------------------------------------------
(* Operational requests: the theorems *)

LEMMA OperationStepInv ==
    ASSUME OperationAssumption, OperationInv, [OperationNext]_operationVars
    PROVE  OperationInv'
<1>1. CASE \E kind \in {"create", "edit", "replace", "logging"} : OpenForm(kind)
  BY <1>1, OpenFormInv
<1>2. CASE \E kind \in {"test", "rotate", "delete", "unstream"} : ReviewOutright(kind)
  BY <1>2, ReviewOutrightInv
<1>3. CASE FillIn
  BY <1>3, FillInInv
<1>4. CASE AcceptSheet
  BY <1>4, AcceptSheetInv
<1>5. CASE CloseSheet
  BY <1>5, CloseSheetInv
<1>6. CASE ConfirmErrand
  BY <1>6, ConfirmErrandInv
<1>7. CASE WriteAccepted \/ WriteRefused \/ WriteLost
  BY <1>7, WriteInv
<1>8. CASE FirstCheck
  BY <1>8, FirstCheckInv
<1>9. CASE SecondCheck
  BY <1>9, SecondCheckInv
<1>10. CASE FinishErrand
  BY <1>10, FinishErrandInv
<1>11. CASE StartRenewal
  BY <1>11, StartRenewalInv
<1>12. CASE EndRenewal
  BY <1>12, EndRenewalInv
<1>13. CASE AnotherHand
  BY <1>13, AnotherHandInv
<1>14. CASE UNCHANGED operationVars
  <2>1. /\ quota' = quota /\ UNCHANGED <<remote, approval, errand>> /\ mirror' = mirror /\ renewing' = renewing /\ sheet' = sheet
    BY <1>14 DEF operationVars
  <2>2. QuotaOK /\ mirror \in Mirrors /\ renewing \in BOOLEAN /\ (sheet = NoSheet \/ IsSheet(sheet))
    BY DEF OperationInv, OperationTypeOK
  <2>3. QuotaOK'
    BY <2>1, <2>2, QuotaStays
  <2>4. QED
    BY <2>1, <2>2, <2>3, ElsewhereInv
<1>15. QED
  BY <1>1, <1>2, <1>3, <1>4, <1>5, <1>6, <1>7, <1>8, <1>9, <1>10, <1>11, <1>12, <1>13, <1>14 DEF OperationNext

\* The invariant implies what the run checks.
LEMMA OperationInvSuffices == ASSUME OperationInv PROVE OperationsAreAsReviewed
<1>0. errand \in ErrandStates \cup {NoErrand} /\ (errand # NoErrand => SaysItself(errand) /\ SaysTruly(errand, remote))
  BY DEF OperationInv, OperationTypeOK
<1>1. KeepsTheUnknown
  <2>1. ASSUME approval.kind = "edit"
        PROVE  WireSubscriptions(approval.request.before) \ Known \subseteq WireSubscriptions(approval.request.after)
    <3>1. approval # NoApproval
      BY <2>1 DEF NoApproval
    <3>2. approval.kind = approval.request.kind /\ FromForm(approval.request)
      BY <3>1 DEF OperationInv, ReviewFromForm
    <3>3. QED
      BY <2>1, <3>2 DEF FromForm
  <2>2. ASSUME errand.step # "none", errand.request.kind = "edit"
        PROVE  WireSubscriptions(errand.request.before) \ Known \subseteq WireSubscriptions(errand.request.after)
    <3>1. errand # NoErrand
      BY <2>2 DEF NoErrand
    <3>2. FromForm(errand.request)
      BY <1>0, <3>1 DEF SaysItself
    <3>3. QED
      BY <2>2, <3>2 DEF FromForm
  <2>3. QED
    BY <2>1, <2>2 DEF KeepsTheUnknown
<1>2. LeavesTheOthers
  <2>1. ASSUME errand.step # "none", errand.alone
        PROVE  OtherParts(remote, errand.request) = OtherParts(errand.was, errand.request)
    <3>1. errand # NoErrand
      BY <2>1 DEF NoErrand
    <3>2. OthersIn(remote, errand.was.next, errand.request) = OthersIn(errand.was, errand.was.next, errand.request)
      BY <1>0, <2>1, <3>1 DEF SaysTruly
    <3>3. /\ OtherParts(remote, errand.request) = OthersIn(remote, errand.was.next, errand.request)
          /\ OtherParts(errand.was, errand.request) = OthersIn(errand.was, errand.was.next, errand.request)
      BY DEF OtherParts, OthersIn, OwnId
    <3>4. QED
      BY <3>2, <3>3
  <2>2. QED
    BY <2>1 DEF LeavesTheOthers
<1>3. ToldAsItIs
  <2>1. ASSUME errand.step = "ended", errand.alone
        PROVE  /\ errand.told \in {"Verified", "Unverified"} => AskedForHolds(errand.request)
               /\ errand.told = "Failed" => remote = errand.was
    <3>1. errand # NoErrand
      BY <2>1 DEF NoErrand
    <3>2. SaysItself(errand) /\ SaysTruly(errand, remote)
      BY <1>0, <3>1
    <3>3. errand.told \in {"none", "elsewhere", errand.result}
      BY <3>2 DEF SaysItself
    <3>4. ASSUME errand.told \in {"Verified", "Unverified"} PROVE AskedForHolds(errand.request)
      <4>1. errand.sent = "accepted" \/ errand.result = "Verified"
        BY <3>2, <3>3, <3>4 DEF SaysItself
      <4>2. HoldsIn(remote, errand.sent, errand.request)
        BY <2>1, <3>2, <4>1 DEF SaysTruly
      <4>3. QED
        BY <4>2 DEF HoldsIn, AskedForHolds, Exists
    <3>5. ASSUME errand.told = "Failed" PROVE remote = errand.was
      <4>1. errand.sent = "refused"
        BY <3>2, <3>3, <3>5 DEF SaysItself
      <4>2. QED
        BY <2>1, <3>2, <4>1 DEF SaysTruly
    <3>6. QED
      BY <3>4, <3>5
  <2>2. QED
    BY <2>1 DEF ToldAsItIs
<1>4. QED
  BY <1>1, <1>2, <1>3 DEF OperationsAreAsReviewed

\* Every request, review and answer is of its kind: execute_operational_mutation
\* and the reducers handle the drafts of one enum each.
THEOREM OperationTypeCorrect == OperationSpec => []OperationTypeOK
<1>1. OperationInit => OperationInv
  BY OperationAssumption, OperationInitInv
<1>2. OperationInv /\ [OperationNext]_operationVars => OperationInv'
  BY OperationAssumption, OperationStepInv
<1>3. OperationInv => OperationTypeOK
  BY DEF OperationInv
<1>4. QED
  BY <1>1, <1>2, <1>3, PTL DEF OperationSpec

\* A webhook, a log stream or flow logging is changed as was reviewed, nothing
\* beside it is, and the answer is true, whatever answers of the server are
\* lost: accept_operational_mutation to AdminEvent::OperationalFinished.
THEOREM OperationsDoAsReviewed == OperationSpec => []OperationsAreAsReviewed
<1>1. OperationInit => OperationInv
  BY OperationAssumption, OperationInitInv
<1>2. OperationInv /\ [OperationNext]_operationVars => OperationInv'
  BY OperationAssumption, OperationStepInv
<1>3. OperationInv => OperationsAreAsReviewed
  BY OperationInvSuffices
<1>4. QED
  BY <1>1, <1>2, <1>3, PTL DEF OperationSpec

=============================================================================
