---------------------------- MODULE ActivityLogs ----------------------------
(***************************************************************************)
(* The two logs of a tailnet that are read in windows of time: network     *)
(* flows, asked for in a form and added up by a worker, and the audit log, *)
(* whose window is a number of days.  Their reads share a generation with  *)
(* every other refresh; a profile switch, a refresh or a new question may  *)
(* come at any time.  An export is written from the rows shown when it was *)
(* reviewed.                                                               *)
(***************************************************************************)
EXTENDS Integers, Sequences, FiniteSets
LOCAL INSTANCE SequencesExt
LOCAL INSTANCE FiniteSetsExt

CONSTANTS Tenants,        \* profiles
          CounterLimit,   \* the largest counter (u64::MAX)
          MessageLimit,   \* MAX_FLOW_MESSAGES
          LogBounds       \* [acts, kinds, hours, faults, typed, sieves, flows, events]

Midnight == 10000   \* the hour it is at first
DayHours == 24
MaxFlowWindow == 24
FlowRetention == 30 * DayHours
TrafficClasses == <<"virtual", "subnet", "exit", "physical">>

ASSUME LogAssumption ==
    /\ CounterLimit \in Nat /\ MessageLimit \in Nat
    /\ \A b \in LogBounds :
           /\ DOMAIN b = {"acts", "kinds", "hours", "faults", "typed", "sieves", "flows", "events"}
           /\ {b.acts, b.hours, b.faults} \subseteq Nat

VARIABLES spare,      \* what may still happen
          hour,       \* App.now
          tenant,     \* App.admin.profile
          readGen,    \* App.admin_generation
          fetches,    \* reads under way
          prompt,     \* the overlay
          narrowed,   \* App.flow_filter
          flows,      \* App.flow_snapshot
          tallyGen,   \* App.flow_aggregation_generation
          tallies,    \* aggregations under way
          days,       \* App.admin_audit_window_days
          sieve,      \* App.audit_filters
          audit,      \* App.admin.activity
          shelved,    \* App.admin_profile_snapshots: activity of the other profiles
          sketch,     \* App.pending_export_document
          asked,      \* history: the last window and filter accepted, and where
          exported    \* the file last exported

logVars == <<spare, hour, tenant, readGen, fetches, prompt, narrowed, flows, tallyGen, tallies, days, sieve,
             audit, shelved, sketch, asked, exported>>

-----------------------------------------------------------------------------
(* Flows: an empty choice admits everything *)

\* "port" stands for the ports and addresses of a connection.
FlowFields == {"reporting", "source", "destination", "protocol", "class", "port", "least"}
AllFlows   == [f \in FlowFields |-> {}]
Admits(choice, value) == choice = {} \/ value \in choice

\* FlowMessage::records.
RecordOf(m, class, connection) ==
    [node |-> m.node, source |-> m.source, destinations |-> m.destinations, class |-> class, connection |-> connection]
RecordsOf(messages) ==
    FlattenSeq([i \in DOMAIN messages |->
        FlattenSeq([c \in DOMAIN TrafficClasses |->
            LET carried == messages[i].traffic[TrafficClasses[c]] IN
            [j \in DOMAIN carried |-> RecordOf(messages[i], TrafficClasses[c], carried[j])]])])

\* The bytes both ways, where their sum is a counter at all.
AtLeast(choice, connection) == \A n \in choice : connection.tx + connection.rx \in n..CounterLimit

\* FlowFilter::matches.
MatchesFlow(f, r) ==
    /\ Admits(f.reporting, r.node) /\ Admits(f.source, r.source) /\ Admits(f.class, r.class)
    /\ f.destination = {} \/ f.destination \cap r.destinations # {}
    /\ Admits(f.protocol, r.connection.proto) /\ Admits(f.port, r.connection.port)
    /\ AtLeast(f.least, r.connection)

\* FlowFilter::matches_parts, for the count, which makes no records.
MatchesParts(f, m, class, connection) ==
    /\ Admits(f.reporting, m.node) /\ Admits(f.source, m.source) /\ Admits(f.class, class)
    /\ f.destination = {} \/ \E d \in m.destinations : d \in f.destination
    /\ Admits(f.protocol, connection.proto) /\ Admits(f.port, connection.port)
    /\ AtLeast(f.least, connection)
FilteredCount(m, f) ==
    MapThenSumSet(LAMBDA c : Cardinality({j \in DOMAIN m.traffic[c] : MatchesParts(f, m, c, m.traffic[c][j])}),
                  DOMAIN m.traffic)
VisibleCount(messages, f) == MapThenSumSet(LAMBDA i : FilteredCount(messages[i], f), DOMAIN messages)

\* dimension_value, of the three dimensions that are asked for.
TallyKey(r) == <<r.node, r.class, r.connection.proto>>

\* aggregate_checked_cancellable, run to its end: record after record into the
\* row of its key, and nothing at all once a counter is too large.
Counted(row, connection) == [tx |-> row.tx + connection.tx, rx |-> row.rx + connection.rx, records |-> row.records + 1]
Tally(messages, f) ==
    LET add(r, sums) ==
            IF sums.over \/ ~MatchesFlow(f, r) THEN sums
            ELSE LET key == TallyKey(r)
                     old == IF key \in DOMAIN sums.rows THEN sums.rows[key] ELSE [tx |-> 0, rx |-> 0, records |-> 0]
                     new == Counted(old, r.connection)
                 IN  IF new.tx > CounterLimit \/ new.rx > CounterLimit THEN [sums EXCEPT !.over = TRUE]
                     ELSE [sums EXCEPT !.rows = [k \in DOMAIN @ \cup {key} |-> IF k = key THEN new ELSE @[k]]]
    IN  FoldSeq(add, [over |-> FALSE, rows |-> [k \in {} |-> 0]], RecordsOf(messages))

\* FlowWindow::new.
ValidWindow(w) ==
    /\ w[1] <= w[2] /\ w[2] <= hour
    /\ w[2] - w[1] <= MaxFlowWindow
    /\ w[1] >= hour - FlowRetention
PreviousHour == <<hour - 1, hour>>

\* get_network_flow_logs (the service's part of it), of one profile's tailnet.
LoggedIn(messages, w) == SelectSeq(messages, LAMBDA m : m.logged \in w[1]..w[2])
FlowsOf(t, w) == LoggedIn(spare.flows[t], w)
\* What is refused: too many messages, or one with a field missing.
Decodes(messages) == Len(messages) <= MessageLimit /\ \A i \in DOMAIN messages : messages[i].whole

NoFlows == <<>>
NoRows  == <<>>
\* FlowSnapshot::from_messages, set_filter.
FlowSnapshot(w, messages, f) ==
    <<[window |-> w, messages |-> messages, filter |-> f, count |-> VisibleCount(messages, f), rows |-> NoRows]>>

-----------------------------------------------------------------------------
(* The audit log *)

AllEvents == [from |-> {}, to |-> {}, actor |-> {}, action |-> {}, target |-> {}]

\* AuditFilters::matches.
MatchesEvent(f, e) ==
    /\ \A from \in f.from : e.at >= from
    /\ \A to \in f.to : e.at <= to
    /\ Admits(f.actor, e.actor) /\ Admits(f.action, e.action) /\ Admits(f.target, e.target)

\* run_admin_refresh, run_admin_resource_refresh: the days before the read.
EventsOf(t, number, at) == {e \in spare.events[t] : e.at \in (at - number * DayHours)..at}

NoAudit == [state |-> "none", list |-> {}, at |-> 0]

-----------------------------------------------------------------------------

LogsInit ==
    /\ spare \in LogBounds
    /\ hour = Midnight
    /\ tenant = CHOOSE t \in Tenants : TRUE
    /\ readGen = 0 /\ fetches = {}
    /\ prompt = [kind |-> "none"]
    /\ narrowed = AllFlows
    /\ flows = NoFlows
    /\ tallyGen = 0 /\ tallies = {}
    /\ days = 1
    /\ sieve = AllEvents
    /\ audit = NoAudit
    /\ shelved = [t \in Tenants |-> NoAudit]
    /\ sketch = <<>>
    /\ asked = <<>>
    /\ exported = <<>>

Use(what) == spare[what] > 0 /\ spare' = [spare EXCEPT ![what] = @ - 1]
Does(kind) == prompt.kind = "none" /\ kind \in spare.kinds /\ Use("acts")
ClosesPrompt == prompt' = [kind |-> "none"]

\* start_admin_resource_refresh, start_admin_refresh: one more generation, and
\* the audit log is loading when it is among the resources.
StartFetch(kind, t, w, number) ==
    /\ readGen' = readGen + 1
    /\ fetches' = fetches \cup {[gen |-> readGen + 1, kind |-> kind, tenant |-> t, window |-> w, days |-> number, at |-> hour]}

\* cancel_flow_aggregation, and one more generation.
DropTally ==
    /\ tallies' = {[job EXCEPT !.cancelled = TRUE] : job \in tallies}
    /\ tallyGen' = tallyGen + 1

Windows == <<narrowed, flows, tallyGen, tallies, asked>>
Audits  == <<days, sieve, audit, shelved>>

HourPasses ==
    /\ Use("hours")
    /\ hour' = hour + 1
    /\ UNCHANGED <<tenant, readGen, fetches, prompt, Windows, Audits, sketch, exported>>

\* open_flow_window_form.
OpenWindowForm ==
    /\ Does("window")
    /\ prompt' = [kind |-> "window", window |-> PreviousHour, filter |-> narrowed]
    /\ UNCHANGED <<hour, tenant, readGen, fetches, Windows, Audits, sketch, exported>>

\* accept_flow_window_form.
AcceptWindowForm ==
    /\ prompt.kind = "window"
    /\ \E edit \in spare.typed :
           LET w == IF edit.window = <<>> THEN prompt.window ELSE edit.window
               f == [field \in FlowFields |-> IF field \in DOMAIN edit.filter THEN edit.filter[field] ELSE prompt.filter[field]]
           IN  /\ ValidWindow(w)
               /\ narrowed' = f
               /\ StartFetch("flows", tenant, w, 0)
               /\ asked' = <<[tenant |-> tenant, window |-> w, filter |-> f]>>
    /\ flows' = NoFlows
    /\ DropTally
    /\ ClosesPrompt
    /\ UNCHANGED <<spare, hour, tenant, Audits, sketch, exported>>

\* Every overlay can be left.
Leave ==
    /\ prompt.kind # "none"
    /\ ClosesPrompt
    /\ sketch' = <<>>
    /\ UNCHANGED <<spare, hour, tenant, readGen, fetches, Windows, Audits, exported>>

\* ActivitySelectWindow.
SelectDays ==
    /\ Does("days")
    /\ days' = (CASE days = 1 -> 7 [] days = 7 -> 30 [] days = 30 -> 90 [] OTHER -> 1)
    /\ audit' = [audit EXCEPT !.state = "loading"]
    /\ StartFetch("audit", tenant, <<0, 0>>, days')
    /\ UNCHANGED <<hour, tenant, prompt, Windows, sieve, shelved, sketch, exported>>

\* start_admin_refresh: of the timer or of a change that was made.
RefreshLogs ==
    /\ "refresh" \in spare.kinds /\ Use("acts")
    /\ audit' = [audit EXCEPT !.state = "loading"]
    /\ StartFetch("audit", tenant, <<0, 0>>, days)
    /\ UNCHANGED <<hour, tenant, prompt, Windows, days, sieve, shelved, sketch, exported>>

\* open_audit_filter.
OpenAuditForm ==
    /\ Does("filter")
    /\ \E parts \in {{"from", "to"}, {"actor"}, {"action"}, {"target"}} :
           prompt' = [kind |-> "audit", parts |-> parts]
    /\ UNCHANGED <<hour, tenant, readGen, fetches, Windows, Audits, sketch, exported>>

\* accept_audit_filter: what the form asks for, the rest as it is now; then the
\* entries are shown.
AcceptAuditForm ==
    /\ prompt.kind = "audit"
    /\ \E edit \in spare.sieves :
           LET f == [p \in DOMAIN sieve |-> IF p \in prompt.parts THEN edit[p] ELSE sieve[p]] IN
           /\ \A from \in f.from, to \in f.to : from <= to
           /\ sieve' = f
    /\ prompt' = [kind |-> "entries"]
    /\ UNCHANGED <<spare, hour, tenant, readGen, fetches, Windows, days, audit, shelved, sketch, exported>>

\* set_admin_profile: the other profile's log comes back as it was left, and
\* everything is read again; the filters stay.
SwitchTenant(t) ==
    /\ "switch" \in spare.kinds /\ Use("acts")
    /\ t # tenant
    /\ tenant' = t
    /\ shelved' = [shelved EXCEPT ![tenant] = audit]
    /\ audit' = [shelved[t] EXCEPT !.state = "loading"]
    /\ flows' = NoFlows
    /\ DropTally
    /\ StartFetch("audit", t, <<0, 0>>, days)
    /\ UNCHANGED <<hour, prompt, narrowed, asked, days, sieve, sketch, exported>>

-----------------------------------------------------------------------------
(* Answers *)

Current(read) == read.tenant = tenant /\ read.gen = readGen

Outrun(read) ==
    /\ read \in fetches /\ ~Current(read)
    /\ fetches' = fetches \ {read}
    /\ UNCHANGED <<spare, hour, tenant, readGen, prompt, Windows, Audits, sketch, exported>>

\* ResourceRefreshFinished with flows.
FlowsArrive(read) ==
    /\ read \in fetches /\ Current(read) /\ read.kind = "flows"
    /\ fetches' = fetches \ {read}
    /\ \/ LET messages == FlowsOf(read.tenant, read.window) IN
          /\ Decodes(messages)
          /\ flows' = FlowSnapshot(read.window, messages, narrowed)
          /\ UNCHANGED spare
       \/ /\ IF Decodes(FlowsOf(read.tenant, read.window)) THEN Use("faults") ELSE UNCHANGED spare
          /\ flows' = NoFlows
    /\ DropTally
    /\ UNCHANGED <<hour, tenant, readGen, prompt, narrowed, asked, Audits, sketch, exported>>

\* ... and with the audit log: apply_admin_result keeps what it had on failure.
AuditArrives(read) ==
    /\ read \in fetches /\ Current(read) /\ read.kind = "audit"
    /\ fetches' = fetches \ {read}
    /\ \/ /\ audit' = [state |-> "ready", list |-> EventsOf(read.tenant, read.days, read.at), at |-> read.at]
          /\ UNCHANGED spare
       \/ Use("faults") /\ audit' = [audit EXCEPT !.state = IF audit.at = 0 THEN "failed" ELSE "stale"]
    /\ UNCHANGED <<hour, tenant, readGen, prompt, Windows, days, sieve, shelved, sketch, exported>>

\* start_flow_aggregation.
StartTally ==
    /\ Does("tally") /\ flows # NoFlows
    /\ tallyGen' = tallyGen + 1
    /\ tallies' = {[job EXCEPT !.cancelled = TRUE] : job \in tallies} \cup
                  {[gen |-> tallyGen + 1, messages |-> flows[1].messages, filter |-> narrowed, cancelled |-> FALSE]}
    /\ UNCHANGED <<hour, tenant, readGen, fetches, prompt, narrowed, flows, asked, Audits, sketch, exported>>

\* Mutant: whatever has been added up is shown.
TallyWanted_Any(job) == TRUE

\* FlowAggregationFinished: of the generation that is awaited.
TallyWanted(job) == job.gen = tallyGen

\* A worker that is cancelled may have ended before it noticed.
TallyEnds(job) ==
    /\ job \in tallies
    /\ tallies' = tallies \ {job}
    /\ LET sums == Tally(job.messages, job.filter) IN
       \/ /\ TallyWanted(job) /\ ~sums.over /\ flows # NoFlows
          /\ flows' = <<[flows[1] EXCEPT !.rows = <<sums.rows>>]>>
       \/ /\ ~TallyWanted(job) \/ sums.over \/ job.cancelled \/ flows = NoFlows
          /\ UNCHANGED flows
    /\ UNCHANGED <<spare, hour, tenant, readGen, fetches, prompt, narrowed, tallyGen, asked, Audits, sketch, exported>>

-----------------------------------------------------------------------------
(* Exports *)

\* build_export_document: the rows that are shown, of flows or of the audit log.
FlowRows  == SelectSeq(RecordsOf(flows[1].messages), LAMBDA r : MatchesFlow(flows[1].filter, r))
AuditRows == SetToSeq({e \in audit.list : MatchesEvent(sieve, e)})
Exported(collection) ==
    [collection |-> collection, tenant |-> tenant,
     flows |-> IF collection = "flows" THEN FlowRows ELSE <<>>,
     events |-> IF collection = "audit" THEN AuditRows ELSE <<>>,
     complete |-> collection = "flows",
     shown |-> IF collection = "flows" THEN flows[1].count ELSE Cardinality({e \in audit.list : MatchesEvent(sieve, e)})]

\* open_operational_confirmation.
ReviewExport(collection) ==
    /\ Does("export")
    /\ IF collection = "flows" THEN flows # NoFlows ELSE audit.at # 0
    /\ prompt' = [kind |-> "export"]
    /\ sketch' = <<Exported(collection)>>
    /\ UNCHANGED <<hour, tenant, readGen, fetches, Windows, Audits, exported>>

ConfirmExport ==
    /\ prompt.kind = "export"
    /\ exported' = sketch
    /\ sketch' = <<>>
    /\ ClosesPrompt
    /\ UNCHANGED <<spare, hour, tenant, readGen, fetches, Windows, Audits>>

LogsNext ==
    \/ HourPasses
    \/ OpenWindowForm
    \/ AcceptWindowForm
    \/ Leave
    \/ SelectDays
    \/ RefreshLogs
    \/ OpenAuditForm
    \/ AcceptAuditForm
    \/ \E t \in Tenants : SwitchTenant(t)
    \/ \E read \in fetches : Outrun(read) \/ FlowsArrive(read) \/ AuditArrives(read)
    \/ StartTally
    \/ \E job \in tallies : TallyEnds(job)
    \/ \E collection \in {"flows", "audit"} : ReviewExport(collection)
    \/ ConfirmExport

LogsSpec == LogsInit /\ [][LogsNext]_logVars

-----------------------------------------------------------------------------
(* Properties *)

\* The flows on screen are those of the window and the filter that were asked
\* for last, in the profile they were asked of, whatever else was read, added
\* up, refreshed or switched meanwhile.
FlowsAreThose ==
    flows # NoFlows =>
        /\ asked # <<>> /\ asked[1].tenant = tenant
        /\ flows[1].window = asked[1].window /\ flows[1].filter = asked[1].filter
        /\ flows[1].messages = FlowsOf(tenant, asked[1].window)

\* Their sums are the sums of exactly the records that are counted, none of
\* which is beyond what a counter holds.
SumOf(records, field(_), key) ==
    MapThenSumSet(LAMBDA i : field(records[i]), {i \in DOMAIN records : TallyKey(records[i]) = key})
SumsAreTrue ==
    flows # NoFlows /\ flows[1].rows # NoRows =>
        LET rows == flows[1].rows[1]
            records == FlowRows
        IN  /\ DOMAIN rows = {TallyKey(records[i]) : i \in DOMAIN records}
            /\ MapThenSumSet(LAMBDA k : rows[k].records, DOMAIN rows) = flows[1].count
            /\ \A k \in DOMAIN rows :
                   /\ rows[k].tx = SumOf(records, LAMBDA r : r.connection.tx, k) /\ rows[k].tx <= CounterLimit
                   /\ rows[k].rx = SumOf(records, LAMBDA r : r.connection.rx, k) /\ rows[k].rx <= CounterLimit

\* An audit log that is shown as up to date is of the days chosen, and of the
\* profile that is active.
AuditIsOfItsWindow == audit.state = "ready" => audit.list = EventsOf(tenant, days, audit.at)

\* A file holds as many rows as the screen counted when it was reviewed, and of
\* one profile only.
ExportsAreAsShown ==
    exported # <<>> =>
        /\ Len(exported[1].flows) + Len(exported[1].events) = exported[1].shown
        /\ \A i \in DOMAIN exported[1].events : exported[1].events[i] \in spare.events[exported[1].tenant]
        /\ Len(exported[1].flows) <= Len(RecordsOf(spare.flows[exported[1].tenant]))

LogsAreAsAsked == FlowsAreThose /\ SumsAreTrue /\ AuditIsOfItsWindow /\ ExportsAreAsShown

=============================================================================
