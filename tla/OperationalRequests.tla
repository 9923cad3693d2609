------------------------- MODULE OperationalRequests -------------------------
(***************************************************************************)
(* What is asked of a tailnet's webhooks, log streams and flow logging:    *)
(* the form and what it is filled with, the request made of it when it is  *)
(* accepted, the confirmation, the one write and the two reads that tell   *)
(* whether it was made.  The secrets that come in an answer and the guards *)
(* between the kinds of change are in OneTimeSecrets.                      *)
(***************************************************************************)
EXTENDS Integers, Sequences, FiniteSets

CONSTANTS Texts,             \* what a name or a field may read
          Known,             \* event names this Tale has heard of
          OperationBounds    \* [kinds, fills, asks, refreshes, faults, hands, start]

VARIABLES quota,   \* what may still happen
          remote,      \* the tailnet: its webhooks, log streams, flow logging (external)
          mirror,      \* App.webhooks, log_stream_configurations, settings.network_flow_logging_on
          renewing,    \* whether a refresh of the mirror is under way
          sheet,       \* the form
          approval,    \* the confirmation
          errand       \* the operation awaited, or the last one

operationVars == <<quota, remote, mirror, renewing, sheet, approval, errand>>

LogTypes == {"configuration", "network"}
NotSet == ""
NoStream == [destination |-> "none"]
NoSheet == [kind |-> "none"]
NoApproval == [kind |-> "none"]
NoErrand == [step |-> "none"]

Consume(what) == quota[what] > 0 /\ quota' = [quota EXCEPT ![what] = @ - 1]
Of(value, key, default) == IF key \in DOMAIN value THEN value[key] ELSE default

-----------------------------------------------------------------------------
(* Webhooks *)

\* SubscriptionSet::from_wire.
SubscriptionSet(categories, events) ==
    [categories |-> categories \cap Known, events |-> events \cap Known,
     unknown_categories |-> categories \ Known, unknown_events |-> events \ Known]

\* wire_categories, wire_events, wire_subscriptions.
WireCategories(s) == s.categories \cup s.unknown_categories
WireEvents(s) == s.events \cup s.unknown_events
WireSubscriptions(s) == WireCategories(s) \cup WireEvents(s)

\* Mutant: an edit lists what the form lists and nothing else.
EditKnown_FormOnly(s, categories, events) == SubscriptionSet(categories, events)

\* SubscriptionSet::edit_known: what Tale does not know is kept.
EditKnown(s, categories, events) ==
    LET typed == SubscriptionSet(categories, events) IN
    [typed EXCEPT !.unknown_categories = @ \cup s.unknown_categories, !.unknown_events = @ \cup s.unknown_events]

\* endpoint_from_dto: the server does not tell categories from events.
Endpoint(hook) == [hook EXCEPT !.subscriptions = SubscriptionSet({}, hook.subscriptions)]
Endpoints(hooks) == [i \in DOMAIN hooks |-> Endpoint(hooks[i])]
Ids(hooks) == {hooks[i].id : i \in DOMAIN hooks}
WithId(hooks, id) == CHOOSE h \in {hooks[i] : i \in DOMAIN hooks} : h.id = id

\* webhook_endpoint_matches.
EndpointMatches(endpoint, draft) ==
    endpoint.url = draft.url /\ endpoint.provider = draft.provider /\ endpoint.subscriptions = draft.subscriptions

\* WebhookDraft::validate.  "unsafe" stands for the addresses validate_url refuses.
ValidDraft(draft) ==
    /\ draft.url \notin {NotSet, "unsafe"}
    /\ draft.provider \in {"discord", "googlechat", "mattermost", "slack"}

-----------------------------------------------------------------------------
(* Log streams *)

\* is_supported_destination; splunk stands for those that take an address.
Supported == {"splunk", "s3", "gcs"}

OfDestination(destination) ==
    CASE destination = "s3"  -> {"s3-bucket", "s3-region", "s3-prefix", "s3-auth", "s3-access-key", "s3-role"}
      [] destination = "gcs" -> {"gcs-bucket", "gcs-prefix", "gcs-scopes"}
      [] OTHER               -> {"url"}
Common == {"user", "period", "compression"}
StreamKeys == OfDestination("s3") \cup OfDestination("gcs") \cup OfDestination("splunk") \cup Common

\* log_stream_fields: the fields follow the destination, their values are kept
\* by name and the others are gone.
StreamFields(destination, kept) ==
    [key \in {"type", "destination"} \cup OfDestination(destination) \cup Common |->
        CASE key = "type"        -> IF Of(kept, "type", NotSet) = "configuration" THEN "configuration" ELSE "network"
          [] key = "destination" -> IF destination \in Supported THEN destination ELSE "splunk"
          [] OTHER               -> Of(kept, key, NotSet)]

\* LogStreamMutationDraft, of the form.
StreamDraft(values, secret) ==
    [kind |-> "replace", log |-> values["type"], destination |-> values["destination"],
     fields |-> [key \in StreamKeys |-> Of(values, key, NotSet)], secret |-> secret]

\* log_stream_from_form: what it refuses.  "often" stands for no number.
Readable(values, secret) == secret # NotSet /\ values["period"] # "often"

\* LogStreamReplacement::validate, which only the worker calls.  "2000"
\* stands for a period that is too long.
ValidReplacement(draft) ==
    /\ draft.fields["period"] # "2000"
    /\ CASE draft.destination = "s3" ->
              /\ draft.fields["s3-bucket"] # NotSet /\ draft.fields["s3-region"] # NotSet
              /\ \/ draft.fields["s3-auth"] = "accesskey" /\ draft.fields["s3-access-key"] # NotSet
                 \/ draft.fields["s3-auth"] = "rolearn" /\ draft.fields["s3-role"] # NotSet
         [] draft.destination = "gcs" -> draft.fields["gcs-bucket"] # NotSet
         [] OTHER -> draft.fields["url"] # NotSet

\* json_body: the fields that were given, and the secret.
Body(draft) ==
    [destination |-> draft.destination, secret |-> draft.secret,
     fields |-> [key \in {k \in StreamKeys : draft.fields[k] # NotSet} \ (IF draft.destination \in {"s3", "gcs"} THEN {"url"} ELSE {})
                    |-> draft.fields[key]]]

\* configuration_from_dto: one of three fields is the identity, secrets are not returned.
Identity(fields) ==
    IF fields["url"] # NotSet THEN fields["url"]
    ELSE IF fields["s3-bucket"] # NotSet THEN fields["s3-bucket"]
    ELSE fields["gcs-bucket"]
IdentityKeys == {"url", "s3-bucket", "gcs-bucket"}
AsRead(stream) ==
    [destination |-> stream.destination, identity |-> Identity(stream.fields),
     fields |-> [key \in StreamKeys \ IdentityKeys |-> stream.fields[key]]]

\* log_stream_configuration_matches: a field that was not asked for may be anything.
ConfigurationMatches(draft, observed) ==
    /\ observed.destination = draft.destination
    /\ observed.identity = CASE draft.destination = "s3"  -> draft.fields["s3-bucket"]
                             [] draft.destination = "gcs" -> draft.fields["gcs-bucket"]
                             [] OTHER                     -> draft.fields["url"]
    /\ \A key \in StreamKeys \ IdentityKeys : draft.fields[key] \in {NotSet, observed.fields[key]}

-----------------------------------------------------------------------------
(* What a form and a request hold *)

Webhooks == [id : Nat, url : Texts, provider : Texts, subscriptions : SUBSET Texts]
Streams == [destination : Texts, secret : Texts, fields : [StreamKeys -> Texts]]
Tailnets == [hooks : Seq(Webhooks), streams : [LogTypes -> Streams \cup {NoStream}], logging : BOOLEAN, next : Nat]

\* The server tells its endpoints apart, and a new one from every other.
OwnIds(tailnet) ==
    /\ \A i \in DOMAIN tailnet.hooks : tailnet.hooks[i].id < tailnet.next
    /\ \A i, j \in DOMAIN tailnet.hooks : tailnet.hooks[i].id = tailnet.hooks[j].id => i = j

\* What a field of a form may hold: its own kind of value.
FieldHolds(key, value) ==
    CASE key \in {"categories", "events"} -> value \in SUBSET Texts
      [] key = "enabled"                  -> value \in BOOLEAN
      [] key = "type"                     -> value \in LogTypes
      [] OTHER                            -> value \in Texts

ASSUME OperationAssumption ==
    /\ Known \cup LogTypes \cup Supported \cup {NotSet, "none", "later"} \subseteq Texts
    /\ \A b \in OperationBounds :
        /\ DOMAIN b = {"kinds", "fills", "asks", "refreshes", "faults", "hands", "start"}
        /\ {b.asks, b.refreshes, b.faults, b.hands} \subseteq Nat
        /\ b.start \in Tailnets /\ OwnIds(b.start)
        /\ \A fill \in b.fills : \A key \in DOMAIN fill : FieldHolds(key, fill[key])

-----------------------------------------------------------------------------
(* What is known *)

\* The reads of a refresh; a resource that could not be read is left as it was.
Mirrored(unread) ==
    [hooks |-> IF "hooks" \in unread THEN mirror.hooks ELSE Endpoints(remote.hooks),
     streams |-> [log \in LogTypes |->
                    IF log \in unread THEN mirror.streams[log]
                    ELSE IF remote.streams[log] = NoStream THEN NoStream
                    ELSE AsRead(remote.streams[log])],
     logging |-> IF "logging" \in unread THEN mirror.logging ELSE remote.logging]

\* App::selected_webhook.
HasWebhook == mirror.hooks # <<>>
SelectedWebhook == mirror.hooks[1]

\* A new refresh is a new generation: what was reviewed or asked is of the old one.
StartRenewal ==
    /\ Consume("refreshes")
    /\ renewing' = TRUE
    /\ approval' = IF approval = NoApproval THEN approval ELSE [approval EXCEPT !.current = FALSE]
    /\ errand' = IF errand = NoErrand THEN errand ELSE [errand EXCEPT !.current = FALSE]
    /\ UNCHANGED <<remote, mirror, sheet>>

EndRenewal ==
    /\ renewing
    /\ renewing' = FALSE
    /\ \/ mirror' = Mirrored({}) /\ UNCHANGED quota
       \/ Consume("faults") /\ \E missed \in {"hooks", "network"} : mirror' = Mirrored({missed})
    /\ UNCHANGED <<remote, sheet, approval, errand>>

\* Somebody else administers the same tailnet.
AnotherHand ==
    /\ Consume("hands")
    /\ \/ remote.hooks # <<>> /\ remote' = [remote EXCEPT !.hooks = Tail(@)]
       \/ remote.hooks # <<>> /\ remote' = [remote EXCEPT !.hooks[1].subscriptions = @ \cup {"later"}]
       \/ \E log \in LogTypes : remote.streams[log] # NoStream /\ remote' = [remote EXCEPT !.streams[log] = NoStream]
       \/ remote' = [remote EXCEPT !.logging = ~@]
    /\ errand' = IF errand = NoErrand THEN errand ELSE [errand EXCEPT !.alone = FALSE]
    /\ UNCHANGED <<mirror, renewing, sheet, approval>>

-----------------------------------------------------------------------------
(* The forms *)

ErrandAwaited == errand.step \in {"write", "first", "second", "answered"}

\* operational_mutation_available; a dialog is modal.
Askable(kind) == kind \in quota.kinds /\ ~ErrandAwaited /\ sheet = NoSheet /\ approval = NoApproval /\ quota.asks > 0

Sheet(kind, values) == [kind |-> kind, values |-> values, secret |-> NotSet]

\* open_webhook_form: the form of an edit lists what the endpoint is told of.
WebhookForm(kind) ==
    IF kind = "edit"
    THEN Sheet(kind, [categories |-> WireCategories(SelectedWebhook.subscriptions), events |-> WireEvents(SelectedWebhook.subscriptions)])
    ELSE Sheet(kind, [url |-> NotSet, provider |-> "none", categories |-> {}, events |-> {}])

\* open_log_stream_form: no more than three values of what is there are shown.
LogStreamForm ==
    LET log == IF mirror.streams["network"] # NoStream THEN "network" ELSE "configuration"
        shown == mirror.streams[log] IN
    Sheet("replace",
          IF shown = NoStream THEN StreamFields("splunk", [type |-> "network"])
          ELSE StreamFields(shown.destination, [type |-> log, url |-> shown.identity]))

\* open_network_log_form.
NetworkLogForm == Sheet("logging", [enabled |-> mirror.logging])

OpenForm(kind) ==
    /\ Askable(kind) /\ Consume("asks")
    /\ kind = "edit" => HasWebhook
    /\ sheet' = CASE kind \in {"create", "edit"} -> WebhookForm(kind)
                  [] kind = "replace"            -> LogStreamForm
                  [] kind = "logging"            -> NetworkLogForm
    /\ UNCHANGED <<remote, mirror, renewing, approval, errand>>

\* refresh_form_fields: those of a log stream follow the destination.
FieldsShown(fill) ==
    IF sheet.kind = "replace"
    THEN StreamFields(Of(fill, "destination", sheet.values["destination"]), sheet.values) ELSE sheet.values
FilledIn(fill) ==
    LET shown == FieldsShown(fill) IN
    [sheet EXCEPT !.values = [key \in DOMAIN shown |-> Of(fill, key, shown[key])], !.secret = Of(fill, "secret", @)]

\* The user fills in a form.
FillIn ==
    /\ sheet # NoSheet
    /\ \E fill \in quota.fills :
        /\ DOMAIN fill \ {"secret"} \subseteq DOMAIN FieldsShown(fill)
        /\ sheet' = FilledIn(fill)
        /\ quota' = [quota EXCEPT !.fills = @ \ {fill}]
    /\ UNCHANGED <<remote, mirror, renewing, approval, errand>>

\* webhook_edit_from_form: the endpoint is the one that is selected by now.
EditAsked(values) ==
    [kind |-> "edit", id |-> SelectedWebhook.id, before |-> SelectedWebhook.subscriptions,
     after |-> EditKnown(SelectedWebhook.subscriptions, values["categories"], values["events"])]

\* webhook_create_from_form.
CreateAsked(values) ==
    [kind |-> "create", url |-> values["url"], provider |-> values["provider"],
     subscriptions |-> SubscriptionSet(values["categories"], values["events"])]

\* open_operational_confirmation.
Approve(asked) == approval' = [kind |-> asked.kind, request |-> asked, current |-> TRUE]

\* accept_admin_operational_form; a form that is refused stays.
AcceptSheet ==
    /\ CASE sheet.kind = "create"  -> ValidDraft(CreateAsked(sheet.values)) /\ Approve(CreateAsked(sheet.values))
         [] sheet.kind = "edit"    -> HasWebhook /\ Approve(EditAsked(sheet.values))
         [] sheet.kind = "replace" -> Readable(sheet.values, sheet.secret) /\ Approve(StreamDraft(sheet.values, sheet.secret))
         [] sheet.kind = "logging" -> Approve([kind |-> "logging", enabled |-> sheet.values["enabled"]])
         [] OTHER                  -> FALSE
    /\ sheet' = NoSheet
    /\ UNCHANGED <<quota, remote, mirror, renewing, errand>>

\* open_admin_operational_action: what needs no form.
ReviewOutright(kind) ==
    /\ Askable(kind) /\ Consume("asks")
    /\ kind \in {"test", "rotate", "delete"} => HasWebhook
    /\ Approve(IF kind = "unstream"
               THEN [kind |-> kind, log |-> IF mirror.streams["configuration"] # NoStream THEN "configuration" ELSE "network"]
               ELSE [kind |-> kind, id |-> SelectedWebhook.id])
    /\ UNCHANGED <<remote, mirror, renewing, sheet, errand>>

CloseSheet ==
    /\ sheet # NoSheet \/ approval # NoApproval
    /\ sheet' = NoSheet /\ approval' = NoApproval
    /\ UNCHANGED <<quota, remote, mirror, renewing, errand>>

\* accept_confirmation, accept_operational_mutation.
ConfirmErrand ==
    /\ approval # NoApproval /\ approval.current /\ ~ErrandAwaited
    /\ approval' = NoApproval
    /\ errand' = [request |-> approval.request, step |-> "write", current |-> TRUE, sent |-> "no", id |-> 0, saw |-> "none", found |-> 0,
                  result |-> "none", told |-> "none", alone |-> TRUE, was |-> remote]
    /\ UNCHANGED <<quota, remote, mirror, renewing, sheet>>

-----------------------------------------------------------------------------
(* The write *)

\* Whether the server has what the request is about; else it is not found.
Exists(asked) ==
    CASE asked.kind \in {"edit", "rotate", "delete", "test"} -> asked.id \in Ids(remote.hooks)
      [] asked.kind = "unstream"                             -> remote.streams[asked.log] # NoStream
      [] OTHER                                               -> TRUE

\* create_webhook: a new endpoint, which the server lists last.
Created(asked) ==
    [remote EXCEPT !.next = @ + 1,
                   !.hooks = Append(@, [id |-> remote.next, url |-> asked.url, provider |-> asked.provider,
                                        subscriptions |-> WireSubscriptions(asked.subscriptions)])]

\* edit_webhook_subscriptions, delete_webhook.
Edited(asked) ==
    [remote EXCEPT !.hooks = [i \in DOMAIN @ |-> IF @[i].id = asked.id
                                                 THEN [@[i] EXCEPT !.subscriptions = WireSubscriptions(asked.after)] ELSE @[i]]]
WithoutHook(hooks, id) ==
    LET at == CHOOSE i \in DOMAIN hooks : hooks[i].id = id IN
    [i \in 1..(Len(hooks) - 1) |-> IF i < at THEN hooks[i] ELSE hooks[i + 1]]
Deleted(asked) == [remote EXCEPT !.hooks = WithoutHook(@, asked.id)]

\* replace_log_stream_configuration, delete_log_stream_configuration: the
\* server has what the body names and nothing else.
Replaced(asked) ==
    [remote EXCEPT !.streams[asked.log] =
        [destination |-> Body(asked).destination, secret |-> Body(asked).secret,
         fields |-> [key \in StreamKeys |-> Of(Body(asked).fields, key, NotSet)]]]
Unstreamed(asked) == [remote EXCEPT !.streams[asked.log] = NoStream]

\* set_network_log_setting.
Switched(asked) == [remote EXCEPT !.logging = asked.enabled]

Effected(asked) ==
    CASE asked.kind = "create"   -> Created(asked)
      [] asked.kind = "edit"     -> Edited(asked)
      [] asked.kind = "delete"   -> Deleted(asked)
      [] asked.kind = "replace"  -> Replaced(asked)
      [] asked.kind = "unstream" -> Unstreamed(asked)
      [] asked.kind = "logging"  -> Switched(asked)
      [] OTHER                   -> remote

\* execute_operational_mutation: a request that is not valid is not sent.
FitToSend(asked) == asked.kind = "replace" => ValidReplacement(asked)

Wrote(sent, step, result, took) ==
    /\ errand' = [errand EXCEPT !.sent = sent, !.step = step, !.result = result,
                                !.id = IF sent = "accepted" /\ errand.request.kind = "create" THEN remote.next ELSE 0,
                                !.was = remote, !.alone = TRUE]
    /\ remote' = IF took THEN Effected(errand.request) ELSE remote
    /\ UNCHANGED <<mirror, renewing, sheet, approval>>

WriteAccepted ==
    /\ errand.step = "write" /\ FitToSend(errand.request) /\ Exists(errand.request)
    /\ Wrote("accepted", "first", "none", TRUE)
    /\ UNCHANGED quota

WriteRefused ==
    /\ errand.step = "write"
    /\ IF FitToSend(errand.request) /\ Exists(errand.request) THEN Consume("faults") ELSE UNCHANGED quota
    /\ Wrote("refused", "answered", "Failed", FALSE)

\* operational_write_may_have_reached_server: no answer, or none that can be
\* read.  A test or a rotation cannot be looked for.
WriteLost ==
    /\ errand.step = "write" /\ FitToSend(errand.request) /\ Consume("faults")
    /\ \E took \in BOOLEAN :
        /\ took => Exists(errand.request)
        /\ IF errand.request.kind \in {"test", "rotate"} THEN Wrote("lost", "answered", "Unknown", took)
           ELSE Wrote("lost", "first", "none", took)

-----------------------------------------------------------------------------
(* The reads *)

Stream(asked) == IF remote.streams[asked.log] = NoStream THEN "absent" ELSE "there"

\* What the first read of a round finds.  One who does not know which
\* endpoint he may have made takes the first that looks the same.
Candidates(asked) ==
    {id \in Ids(remote.hooks) : errand.id \in {0, id} /\ EndpointMatches(Endpoint(WithId(remote.hooks, id)), asked)}
FirstRead(asked) ==
    CASE asked.kind = "create" -> IF Candidates(asked) = {} THEN "other" ELSE "match"
      [] asked.kind = "edit" ->
           IF ~Exists(asked) THEN "absent"
           ELSE IF Endpoint(WithId(remote.hooks, asked.id)).subscriptions = asked.after THEN "match" ELSE "other"
      [] asked.kind \in {"rotate", "test"} -> IF Exists(asked) THEN "match" ELSE "absent"
      [] asked.kind = "delete" -> IF Exists(asked) THEN "other" ELSE "match"
      [] asked.kind = "replace" ->
           IF Stream(asked) = "absent" THEN "absent"
           ELSE IF ConfigurationMatches(asked, AsRead(remote.streams[asked.log])) THEN "match" ELSE "other"
      [] asked.kind = "unstream" -> IF Stream(asked) = "absent" THEN "match" ELSE "other"
      [] OTHER -> "match"

\* The second read: the list after the endpoint (for a creation the endpoint
\* after the list), the status after the configuration, the settings.
SecondRead(asked) ==
    CASE asked.kind = "create"   -> IF errand.found \in Ids(remote.hooks)
                                    THEN IF EndpointMatches(Endpoint(WithId(remote.hooks, errand.found)), asked) THEN "match" ELSE "other"
                                    ELSE "absent"
      [] asked.kind = "edit"     -> IF Exists(asked) /\ Endpoint(WithId(remote.hooks, asked.id)).subscriptions = asked.after
                                    THEN "match" ELSE "other"
      [] asked.kind = "rotate"   -> IF Exists(asked) THEN "match" ELSE "other"
      [] asked.kind = "delete"   -> IF Exists(asked) THEN "other" ELSE "match"
      [] asked.kind = "replace"  -> IF Stream(asked) = "there" THEN "match" ELSE "absent"
      [] asked.kind = "unstream" -> IF Stream(asked) = "absent" THEN "match" ELSE "other"
      [] asked.kind = "logging"  -> IF remote.logging = asked.enabled THEN "match" ELSE "other"
      [] OTHER                   -> "match"

\* reconcile_operational_write.
ReconcileWrite(asked, verified) ==
    IF asked.kind = "create" /\ errand.sent = "lost" THEN "Unknown"
    ELSE IF verified THEN "Verified"
    ELSE IF errand.sent = "lost" THEN "Unknown"
    ELSE "Unverified"

Concluded(verified) == [errand EXCEPT !.step = "answered", !.result = ReconcileWrite(errand.request, verified)]
ReadOnlyStep == UNCHANGED <<remote, mirror, renewing, sheet, approval>>

\* A read that failed or found something else is tried again until the
\* deadline; what is not found is not waited for, and a test is read once.
Unproven(found) ==
    \/ errand' = Concluded(FALSE)
    \/ found # "absent" /\ errand.request.kind # "test" /\ errand' = [errand EXCEPT !.step = "first", !.saw = "none", !.found = 0]

\* The verdict on the first read waits for the second, but for an error.
FirstCheck ==
    /\ errand.step = "first"
    /\ \/ LET found == FirstRead(errand.request) IN
          /\ IF found = "absent" THEN errand' = Concluded(FALSE)
             ELSE IF errand.request.kind = "create" /\ found = "other" THEN Unproven(found)
             ELSE IF errand.request.kind = "create" THEN
                    \E id \in Candidates(errand.request) : errand' = [errand EXCEPT !.step = "second", !.saw = "match", !.found = id]
             ELSE errand' = [errand EXCEPT !.step = "second", !.saw = found]
          /\ UNCHANGED quota
       \/ Consume("faults") /\ Unproven("unread")
    /\ ReadOnlyStep

SecondCheck ==
    /\ errand.step = "second"
    /\ \/ LET found == SecondRead(errand.request) IN
          /\ IF found = "match" /\ errand.saw # "other" THEN errand' = Concluded(TRUE) ELSE Unproven(found)
          /\ UNCHANGED quota
       \/ Consume("faults") /\ Unproven("unread")
    /\ ReadOnlyStep

\* AdminEvent::OperationalFinished: the list that proved it is shown, and a
\* refresh may follow.
FinishErrand ==
    /\ errand.step = "answered"
    /\ errand' = [errand EXCEPT !.step = "ended", !.told = IF errand.current THEN errand.result ELSE "elsewhere"]
    /\ mirror' = IF errand.current /\ errand.result = "Verified"
                 THEN CASE errand.request.kind \in {"create", "edit", "delete", "rotate", "test"} -> Mirrored(LogTypes \cup {"logging"})
                        [] errand.request.kind = "logging" -> [mirror EXCEPT !.logging = errand.request.enabled]
                        [] OTHER -> mirror
                 ELSE mirror
    /\ renewing' \in IF errand.current THEN {TRUE, renewing} ELSE {renewing}
    /\ UNCHANGED <<quota, remote, sheet, approval>>

-----------------------------------------------------------------------------
OperationInit ==
    /\ quota \in OperationBounds
    /\ remote = quota.start
    /\ mirror = [hooks |-> Endpoints(remote.hooks), logging |-> remote.logging,
                 streams |-> [log \in LogTypes |-> IF remote.streams[log] = NoStream THEN NoStream ELSE AsRead(remote.streams[log])]]
    /\ renewing = FALSE
    /\ sheet = NoSheet /\ approval = NoApproval /\ errand = NoErrand

OperationNext ==
    \/ \E kind \in {"create", "edit", "replace", "logging"} : OpenForm(kind)
    \/ \E kind \in {"test", "rotate", "delete", "unstream"} : ReviewOutright(kind)
    \/ FillIn \/ AcceptSheet \/ CloseSheet \/ ConfirmErrand
    \/ WriteAccepted \/ WriteRefused \/ WriteLost \/ FirstCheck \/ SecondCheck \/ FinishErrand
    \/ StartRenewal \/ EndRenewal \/ AnotherHand

OperationSpec == OperationInit /\ [][OperationNext]_operationVars

-----------------------------------------------------------------------------
(* Types *)

Subscriptions == [categories : SUBSET Known, events : SUBSET Known,
                  unknown_categories : SUBSET Texts, unknown_events : SUBSET Texts]
SeenHooks == [id : Nat, url : Texts, provider : Texts, subscriptions : Subscriptions]
SeenStreams == [destination : Texts, identity : Texts, fields : [StreamKeys \ IdentityKeys -> Texts]]
Mirrors == [hooks : Seq(SeenHooks), streams : [LogTypes -> SeenStreams \cup {NoStream}], logging : BOOLEAN]

\* The fields of each form.
FieldsOf(kind, values) ==
    CASE kind = "create"  -> {"url", "provider", "categories", "events"}
      [] kind = "edit"    -> {"categories", "events"}
      [] kind = "replace" -> {"type", "destination"} \cup OfDestination(values["destination"]) \cup Common
      [] OTHER            -> {"enabled"}
IsSheet(s) ==
    /\ DOMAIN s = {"kind", "values", "secret"} /\ s.kind \in {"create", "edit", "replace", "logging"}
    /\ DOMAIN s.values = FieldsOf(s.kind, s.values)
    /\ \A key \in DOMAIN s.values : FieldHolds(key, s.values[key])
    /\ s.secret \in Texts

Endpointed == [kind : {"test", "rotate", "delete"}, id : Nat]
Edits == [kind : {"edit"}, id : Nat, before : Subscriptions, after : Subscriptions]
Creations == [kind : {"create"}, url : Texts, provider : Texts, subscriptions : Subscriptions]
Replacements == [kind : {"replace"}, log : LogTypes, destination : Texts, fields : [StreamKeys -> Texts], secret : Texts]
Removals == [kind : {"unstream"}, log : LogTypes]
Switches == [kind : {"logging"}, enabled : BOOLEAN]
OperationAsks == Endpointed \cup Edits \cup Creations \cup Replacements \cup Removals \cup Switches

OperationKinds == {"create", "edit", "replace", "logging", "test", "rotate", "delete", "unstream"}
Approvals == [kind : OperationKinds, request : OperationAsks, current : BOOLEAN]
ErrandStates == [request : OperationAsks, step : {"write", "first", "second", "answered", "ended"}, current : BOOLEAN, alone : BOOLEAN,
            sent : {"no", "accepted", "refused", "lost"}, id : Nat, found : Nat, saw : {"none", "match", "other"},
            result : {"none", "Failed", "Unknown", "Verified", "Unverified"},
            told : {"none", "elsewhere", "Failed", "Unknown", "Verified", "Unverified"}, was : Tailnets]

QuotaOK ==
    /\ \E b \in OperationBounds : DOMAIN quota = DOMAIN b /\ quota.fills \subseteq b.fills
    /\ {quota.asks, quota.refreshes, quota.faults, quota.hands} \subseteq Nat

OperationTypeOK ==
    /\ QuotaOK
    /\ remote \in Tailnets /\ mirror \in Mirrors /\ renewing \in BOOLEAN
    /\ sheet = NoSheet \/ IsSheet(sheet)
    /\ approval \in Approvals \cup {NoApproval}
    /\ errand \in ErrandStates \cup {NoErrand}

-----------------------------------------------------------------------------
(* Properties *)

\* What the reviewed request asks for, on the server.
AskedForHolds(asked) ==
    CASE asked.kind = "create"   -> \E i \in DOMAIN remote.hooks :
                                    /\ remote.hooks[i].url = asked.url /\ remote.hooks[i].provider = asked.provider
                                    /\ remote.hooks[i].subscriptions = WireSubscriptions(asked.subscriptions)
      [] asked.kind = "edit"     -> Exists(asked) /\ WithId(remote.hooks, asked.id).subscriptions = WireSubscriptions(asked.after)
      [] asked.kind = "delete"   -> ~Exists(asked)
      [] asked.kind = "replace"  -> /\ remote.streams[asked.log] # NoStream
                                    /\ ConfigurationMatches(asked, AsRead(remote.streams[asked.log]))
                                    /\ errand.sent = "accepted" => remote.streams[asked.log].secret = asked.secret
      [] asked.kind = "unstream" -> remote.streams[asked.log] = NoStream
      [] asked.kind = "logging"  -> remote.logging = asked.enabled
      [] OTHER                   -> TRUE

\* The parts of the tailnet a request is not about.
OtherParts(state, asked) ==
    [hooks |-> {state.hooks[i] : i \in DOMAIN state.hooks} \ {h \in {state.hooks[i] : i \in DOMAIN state.hooks} :
                    h.id = Of(asked, "id", IF asked.kind = "create" THEN errand.was.next ELSE 0)},
     streams |-> [log \in LogTypes \ {Of(asked, "log", "none")} |-> state.streams[log]],
     logging |-> asked.kind = "logging" \/ state.logging]

\* Told that a change was made, the user finds it made - unless somebody else
\* was at work since - and one that failed was not; whatever answers were lost.
ToldAsItIs ==
    errand.step = "ended" /\ errand.alone =>
        /\ errand.told \in {"Verified", "Unverified"} => AskedForHolds(errand.request)
        /\ errand.told = "Failed" => remote = errand.was

\* A change touches what was reviewed and leaves the rest of the tailnet alone.
LeavesTheOthers ==
    errand.step # "none" /\ errand.alone => OtherParts(remote, errand.request) = OtherParts(errand.was, errand.request)

\* Events this Tale has never heard of, that the endpoint was last seen to be
\* told of, are in the edit that is reviewed and sent.
KeepsTheUnknown ==
    /\ approval.kind = "edit" => WireSubscriptions(approval.request.before) \ Known \subseteq WireSubscriptions(approval.request.after)
    /\ (errand.step # "none" /\ errand.request.kind = "edit") =>
           WireSubscriptions(errand.request.before) \ Known \subseteq WireSubscriptions(errand.request.after)

\* A webhook or log stream is changed as was reviewed, and told as it is.
OperationsAreAsReviewed == ToldAsItIs /\ LeavesTheOthers /\ KeepsTheUnknown

=============================================================================
