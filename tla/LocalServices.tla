--------------------------- MODULE LocalServices ---------------------------
(***************************************************************************)
(* What the local client serves: the lists of tailnet mappings, public     *)
(* mappings and Taildrive shares, the refresh that reads them all, the     *)
(* tasks that change one of them under the lock of its kind and read it    *)
(* again, and the account that may change under all of them.  Public is a  *)
(* port, not a mapping: the two lists are one configuration, partitioned.  *)
(***************************************************************************)
EXTENDS Integers, FiniteSets

CONSTANTS Ports, Mounts, Backends,   \* what can be served where
          Shares,                    \* names of Taildrive shares
          ServiceTasks,              \* bound: tasks started
          Refreshes,                 \* bound: refreshes under way at a time
          ServiceBounds              \* what may happen: [changes, kinds, reads, faults, foreign, switches, public, omits]

Off == 0

ServiceKinds      == {"serve", "funnel", "remove", "unpublish", "reset", "share", "unshare"}
ServiceAllowances ==
    [changes : Nat, kinds : SUBSET ServiceKinds, reads : Nat, faults : Nat, foreign : Nat, switches : Nat,
     public : SUBSET Ports, omits : BOOLEAN]

ASSUME ServicesAssumption ==
    Backends # {} /\ Off \notin Backends /\ ServiceBounds \subseteq ServiceAllowances

VARIABLES allowance,    \* what may still happen
          backend,      \* the client's configuration: the backend at each address, or Off (external)
          public,       \* ports published by Funnel (external)
          shared,       \* the shares (external)
          capable,      \* App.local_capabilities: discovery has answered for this account
          services,     \* App.services_snapshot
          serviceLocks, \* App.service_locks
          refresh,      \* the refreshes under way
          job,          \* the service tasks
          unseen,       \* history: changed by another hand since the last refresh began
          switched      \* history: the account has changed

serviceVars == <<allowance, backend, public, shared, capable, services, serviceLocks, refresh, job, unseen, switched>>

Addresses == Ports \X Mounts
Lists     == {"serve", "funnel", "drive"}

NotRead    == [status |-> "Idle", gen |-> 0, known |-> FALSE, value |-> {}]
NoServices == [gen |-> 0, list |-> [r \in Lists |-> NotRead]]
NoRefresh  == [gen |-> 0, todo |-> {}]
NoJob      == [step |-> "none"]

ServicesInit ==
    /\ allowance \in ServiceBounds
    /\ backend = [a \in Addresses |-> IF a[2] = CHOOSE m \in Mounts : TRUE THEN CHOOSE b \in Backends : TRUE ELSE Off]
    /\ public = allowance.public
    /\ shared = {}
    /\ capable = FALSE
    /\ services = NoServices
    /\ serviceLocks = {}
    /\ refresh = [n \in Refreshes |-> NoRefresh]
    /\ job = [t \in ServiceTasks |-> NoJob]
    /\ unseen = FALSE
    /\ switched = FALSE

Allowed(what) == allowance[what] > 0 /\ allowance' = [allowance EXCEPT ![what] = @ - 1]
Configuration == UNCHANGED <<backend, public, shared>>

\* serve status and funnel status read one configuration; a mapping is in the
\* list of its port's exposure.  A client that leaves AllowFunnel out when
\* nothing is public has every mapping in both.
Mapped(ports) == {[at |-> a, backend |-> backend[a]] : a \in {b \in Addresses : backend[b] # Off /\ b[1] \in ports}}
Actual(r) == CASE r = "serve"  -> Mapped(Ports \ public)
               [] r = "funnel" -> IF public = {} /\ allowance.omits THEN Mapped(Ports) ELSE Mapped(public)
               [] r = "drive"  -> shared

-----------------------------------------------------------------------------
(* ServiceResource and LocalServicesSnapshot *)

ListBegins(l, gen) == [l EXCEPT !.gen = gen, !.status = "Loading"]
ListSucceeds(l, gen, value) ==
    IF gen < l.gen THEN l ELSE [gen |-> gen, status |-> "Ready", known |-> TRUE, value |-> value]
ListFails(l, gen) ==
    IF gen < l.gen THEN l ELSE [l EXCEPT !.gen = gen, !.status = IF l.known THEN "Stale" ELSE "Failed"]

\* start_services_refresh, from snapshot s: it cancels the refresh under way.
RefreshServices(s) ==
    LET n == CHOOSE m \in Refreshes : refresh[m] = NoRefresh IN
    /\ \E m \in Refreshes : refresh[m] = NoRefresh
    /\ services' = [gen |-> s.gen + 1, list |-> [r \in Lists |-> ListBegins(s.list[r], s.gen + 1)]]
    /\ refresh' = [m \in Refreshes |->
                      IF m = n THEN [gen |-> s.gen + 1, todo |-> Lists, got |-> [r \in Lists |-> NotRead], cancelled |-> FALSE]
                      ELSE IF refresh[m] = NoRefresh THEN NoRefresh
                      ELSE [refresh[m] EXCEPT !.cancelled = TRUE]]
    /\ unseen' = FALSE

\* The user asks, or the daemon's status has been read.
AskRefresh ==
    /\ Allowed("reads") /\ (capable \/ switched)
    /\ RefreshServices(services)
    /\ Configuration /\ UNCHANGED <<capable, serviceLocks, job, switched>>

\* run_services_refresh: the lists are read at the same time, each as it is then.
ReadList(n) ==
    /\ \E r \in refresh[n].todo :
        \/ /\ refresh' = [refresh EXCEPT ![n].todo = @ \ {r},
                                         ![n].got[r] = [NotRead EXCEPT !.known = TRUE, !.value = Actual(r)]]
           /\ UNCHANGED allowance
        \/ /\ refresh[n].cancelled
           /\ refresh' = [refresh EXCEPT ![n].todo = {}]
           /\ UNCHANGED allowance
        \/ /\ Allowed("faults")
           /\ refresh' = [refresh EXCEPT ![n].todo = @ \ {r}]
    /\ Configuration /\ UNCHANGED <<capable, services, serviceLocks, job, unseen, switched>>

RefreshWanted(n) == refresh[n].gen >= services.gen

\* ServicesEvent::RefreshFinished.
ServicesRefreshed(n) ==
    /\ refresh[n] # NoRefresh /\ refresh[n].todo = {}
    /\ refresh' = [refresh EXCEPT ![n] = NoRefresh]
    /\ services' = IF ~RefreshWanted(n) THEN services
                   ELSE LET gen == refresh[n].gen  got == refresh[n].got IN
                        [gen |-> gen,
                         list |-> [r \in Lists |-> IF got[r].known THEN ListSucceeds(services.list[r], gen, got[r].value)
                                                   ELSE ListFails(services.list[r], gen)]]
    /\ Configuration /\ UNCHANGED <<allowance, capable, serviceLocks, job, unseen, switched>>

-----------------------------------------------------------------------------
(* Tasks *)

MappingRequests ==
    {[kind |-> k, list |-> IF k = "serve" THEN "serve" ELSE "funnel", at |-> a, backend |-> b] :
        k \in {"serve", "funnel"}, a \in Addresses, b \in Backends}
RowRequests ==
    {[kind |-> k, list |-> r, at |-> row.at, backend |-> row.backend] :
        k \in {"remove", "unpublish"}, r \in {"serve", "funnel"}, row \in [at : Addresses, backend : Backends]}
ResetRequests == {[kind |-> "reset", list |-> r] : r \in {"serve", "funnel"}}
ShareRequests == {[kind |-> k, list |-> "drive", name |-> s] : k \in {"share", "unshare"}, s \in Shares}

\* ServiceActionRequest::conflict_key: one change of a list at a time.
ConflictKey(q) == q.list

\* service_mapping_is_current.
RowIsCurrent(q) == [at |-> q.at, backend |-> q.backend] \in services.list[q.list].value

\* revalidate_service_request, and what the row offers.
Revalidated(q) ==
    CASE q.kind = "remove"    -> RowIsCurrent(q)
      [] q.kind = "unpublish" -> q.list = "funnel" /\ RowIsCurrent(q)
      [] q.kind = "share"     -> q.name \notin services.list["drive"].value
      [] q.kind = "unshare"   -> q.name \in services.list["drive"].value
      [] OTHER                -> TRUE

StartServiceTask(q) ==
    /\ Allowed("changes") /\ q.kind \in allowance.kinds
    /\ capable /\ Revalidated(q)
    /\ \A l \in serviceLocks : l.key # ConflictKey(q)
    /\ \E s \in ServiceTasks : job[s] = NoJob
    /\ LET t == CHOOSE s \in ServiceTasks : job[s] = NoJob IN
       /\ job' = [job EXCEPT ![t] = [step |-> "command", request |-> q, result |-> "none", seen |-> NotRead]]
       /\ serviceLocks' = serviceLocks \cup {[key |-> ConflictKey(q), task |-> t]}
    /\ Configuration /\ UNCHANGED <<capable, services, refresh, unseen, switched>>

\* What the client's command does: exposing a mapping exposes its port.
Commanded(q) ==
    CASE q.kind \in {"serve", "unpublish"} ->
             /\ backend' = [backend EXCEPT ![q.at] = q.backend]
             /\ public' = public \ {q.at[1]}
             /\ UNCHANGED shared
      [] q.kind = "funnel" ->
             /\ backend' = [backend EXCEPT ![q.at] = q.backend]
             /\ public' = public \cup {q.at[1]}
             /\ UNCHANGED shared
      [] q.kind = "remove" ->
             /\ backend' = [backend EXCEPT ![q.at] = Off]
             /\ public' = {p \in public : \E m \in Mounts : backend'[<<p, m>>] # Off}
             /\ UNCHANGED shared
      [] q.kind = "reset" ->
             /\ backend' = [a \in Addresses |-> Off]
             /\ public' = {}
             /\ UNCHANGED shared
      [] q.kind = "share"   -> shared' = shared \cup {q.name} /\ UNCHANGED <<backend, public>>
      [] q.kind = "unshare" -> shared' = shared \ {q.name} /\ UNCHANGED <<backend, public>>

JobIs(t, step) == job[t] # NoJob /\ job[t].step = step
JobBecomes(t, step, result) == job' = [job EXCEPT ![t].step = step, ![t].result = result]
JobAlone == UNCHANGED <<capable, services, serviceLocks, refresh, unseen, switched>>

\* run_service_command: it succeeds, or it fails, is cancelled or times out
\* before or after it took effect.
CommandRuns(t) ==
    /\ JobIs(t, "command")
    /\ \/ /\ Commanded(job[t].request)
          /\ JobBecomes(t, "verify", "none")
          /\ UNCHANGED allowance
       \/ /\ Allowed("faults")
          /\ Commanded(job[t].request) \/ Configuration
          /\ JobBecomes(t, "sent", "Failed")
    /\ JobAlone

\* What the verify functions look for in the list they have read.
MatchesRequest(q, value) ==
    CASE q.kind \in {"serve", "funnel"}     -> [at |-> q.at, backend |-> q.backend] \in value
      [] q.kind = "reset"                   -> value = {}
      [] q.kind = "share"                   -> q.name \in value
      [] q.kind = "unshare"                 -> q.name \notin value
      [] q.kind \in {"remove", "unpublish"} -> \A row \in value : row.at # q.at

\* A mapping that is no longer published must still be served: a second list is read.
VerifyService(t) ==
    /\ JobIs(t, "verify")
    /\ LET q == job[t].request
           matches == MatchesRequest(q, Actual(q.list)) IN
       \/ /\ job' = [job EXCEPT ![t].step = IF q.kind = "unpublish" THEN "served?" ELSE "sent",
                                ![t].seen = [NotRead EXCEPT !.known = TRUE, !.value = Actual(q.list)],
                                ![t].result = IF matches THEN "Verified" ELSE "Unverified"]
          /\ UNCHANGED allowance
       \/ /\ Allowed("faults")
          /\ JobBecomes(t, "sent", "Failed")
    /\ Configuration /\ JobAlone

VerifyServed(t) ==
    /\ JobIs(t, "served?")
    /\ \/ /\ IF \E row \in Actual("serve") : row.at = job[t].request.at
             THEN JobBecomes(t, "sent", job[t].result) ELSE JobBecomes(t, "sent", "Unverified")
          /\ UNCHANGED allowance
       \/ /\ Allowed("faults")
          /\ job' = [job EXCEPT ![t].step = "sent", ![t].result = "Failed", ![t].seen = NotRead]
    /\ Configuration /\ JobAlone

\* Mutant: only a task whose result was read back is followed by a refresh.
ReadsBack_Known(t, shown) ==
    IF job[t].seen.known THEN RefreshServices(shown) ELSE services' = shown /\ UNCHANGED <<refresh, unseen>>

\* Whatever came of the task, everything is read again.
ReadsBack(t, shown) == RefreshServices(shown)

\* ServicesEvent::TaskFinished: what was read is shown, and everything is read again.
ServiceTaskFinished(t) ==
    /\ JobIs(t, "sent")
    /\ LET r == job[t].request.list
           shown == IF job[t].seen.known THEN [services EXCEPT !.list[r] = ListSucceeds(@, services.gen, job[t].seen.value)]
                    ELSE services
       IN ReadsBack(t, shown)
    /\ serviceLocks' = {l \in serviceLocks : l.key # ConflictKey(job[t].request) \/ l.task # t}
    /\ JobBecomes(t, "ended", job[t].result)
    /\ Configuration /\ UNCHANGED <<allowance, capable, switched>>

-----------------------------------------------------------------------------
(* The account, and other hands *)

\* LocalEvent::DiscoverySucceeded.
ClientDiscovered ==
    /\ ~capable /\ capable' = TRUE
    /\ RefreshServices(services)
    /\ Configuration /\ UNCHANGED <<allowance, serviceLocks, job, switched>>

\* invalidate_local_state, after a change of account: another configuration.
AccountChanges ==
    /\ Allowed("switches")
    /\ capable' = FALSE
    /\ services' = NoServices
    /\ \E b \in [Addresses -> Backends \cup {Off}] : backend' = b
    /\ switched' = TRUE
    /\ UNCHANGED <<public, shared, serviceLocks, refresh, job, unseen>>

OthersServe ==
    /\ Allowed("foreign")
    /\ \E a \in Addresses, b \in Backends \cup {Off} : b # backend[a] /\ backend' = [backend EXCEPT ![a] = b]
    /\ unseen' = TRUE
    /\ UNCHANGED <<public, shared, capable, services, serviceLocks, refresh, job, switched>>

ServiceTaskSteps(t) == CommandRuns(t) \/ VerifyService(t) \/ VerifyServed(t) \/ ServiceTaskFinished(t)

ServicesNext ==
    \/ AskRefresh \/ ClientDiscovered \/ AccountChanges \/ OthersServe
    \/ \E n \in Refreshes : ReadList(n) \/ ServicesRefreshed(n)
    \/ \E q \in MappingRequests \cup RowRequests \cup ResetRequests \cup ShareRequests : StartServiceTask(q)
    \/ \E t \in ServiceTasks : ServiceTaskSteps(t)

ServicesSpec == ServicesInit /\ [][ServicesNext]_serviceVars

-----------------------------------------------------------------------------
(* Properties *)

ServiceRows(r)  == IF r = "drive" THEN Shares ELSE [at : Addresses, backend : Backends]
ServiceLists    == [status : {"Idle", "Loading", "Ready", "Stale", "Failed"}, gen : Nat, known : BOOLEAN,
                    value : SUBSET (Shares \cup [at : Addresses, backend : Backends])]
RefreshesOfAll  == [gen : Nat \ {0}, todo : SUBSET Lists, got : [Lists -> ServiceLists], cancelled : BOOLEAN]
TaskRequests    == MappingRequests \cup RowRequests \cup ResetRequests \cup ShareRequests
ServiceJobs     == [step : {"command", "verify", "served?", "sent", "ended"}, request : TaskRequests,
                    result : {"none", "Verified", "Unverified", "Failed"}, seen : ServiceLists]

\* What is served, known, asked and under way; each list has rows of its kind.
ServicesTypeOK ==
    /\ allowance \in ServiceAllowances
    /\ backend \in [Addresses -> Backends \cup {Off}] /\ public \subseteq Ports /\ shared \subseteq Shares
    /\ capable \in BOOLEAN /\ unseen \in BOOLEAN /\ switched \in BOOLEAN
    /\ services \in [gen : Nat, list : [Lists -> ServiceLists]]
    /\ refresh \in [Refreshes -> RefreshesOfAll \cup {NoRefresh}]
    /\ job \in [ServiceTasks -> ServiceJobs \cup {NoJob}]
    /\ serviceLocks \subseteq [key : Lists, task : ServiceTasks]
    /\ \A r \in Lists : services.list[r].value \subseteq ServiceRows(r)
    /\ \A n \in Refreshes, r \in Lists : refresh[n] # NoRefresh =>
          refresh[n].got[r].value \subseteq ServiceRows(r) /\ (r \in refresh[n].todo => ~refresh[n].got[r].known)
    /\ \A t \in ServiceTasks : job[t] # NoJob => job[t].seen.value \subseteq ServiceRows(job[t].request.list)

ServicesQuiet ==
    /\ \A n \in Refreshes : refresh[n] = NoRefresh
    /\ \A t \in ServiceTasks : job[t] = NoJob \/ job[t].step = "ended"

\* Once no task and no refresh is under way, no list is loading, and a list
\* shown as ready is the client's, however the answers of tasks and refreshes
\* of the serves, the public ones and the shares crossed - as long as no other
\* hand has changed it since the last refresh began, and the account is the
\* first.  (A new account's snapshot counts its generations from zero: answers
\* of the old one's refresh pass for newer.)
ServicesAreCurrent ==
    ServicesQuiet => \A r \in Lists : /\ services.list[r].status # "Loading"
                                      /\ services.list[r].status = "Ready" /\ ~unseen /\ ~switched =>
                                             services.list[r].value = Actual(r)

=============================================================================
