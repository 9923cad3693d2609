---------------------------- MODULE AdminChanges ----------------------------
(***************************************************************************)
(* One change made through the admin API, of any of the sixteen kinds: the *)
(* form takes the lists as its base, a preflight reads the resource again, *)
(* the review shows it, the write is sent once, verification reads until   *)
(* the change is seen or the deadline passes, and the lists it concerns    *)
(* are read again.  Another administrator changes the same resource at any *)
(* time; the service may take a write long after its response was lost.    *)
(* Locks, batches, profiles and the age of a review are AdminWrites'.      *)
(***************************************************************************)
EXTENDS Integers, Sequences, FiniteSets

CONSTANTS ChangeBounds   \* what may happen: [kind, there, foreign, faults, forms, cancels]

\* Fields as the adapters name them; "present" is the record itself.
DeviceFields == {"name", "hostname", "owner", "tags", "authorized", "keyExpiryDisabled", "expires",
                 "advertisedRoutes", "enabledRoutes", "connectedToControl"}
RouteFields  == {"advertisedRoutes", "enabledRoutes"}
UserFields   == {"loginName", "role", "status", "deviceCount"}
DnsFields    == {"dns", "magicDNS", "searchPaths", "splitDns", "otherDomain"}
ChangeFields == DeviceFields \cup UserFields \cup DnsFields \cup {"present"}

\* Values: No and Yes of a switch, of the record and of expired; elsewhere what
\* is there at first, what is asked for and what somebody else sets.  Of the lists
\* of routes No is the empty one.
No == 0   Yes == 1   Theirs == 2
Values == {No, Yes, Theirs}

(* AdminChange: the field it sets, the values that verify it, the fields a *)
(* fresh read must find as they were, what the preflight reads one after   *)
(* the other, and what is read again at the end.                           *)
Shape(field, wanted, depends, reads, refresh) ==
    [field |-> field, wanted |-> wanted, depends |-> depends, reads |-> reads, refresh |-> refresh]
OnDevice(field, wanted, depends) ==
    Shape(field, wanted, depends, <<DeviceFields>>, DeviceFields \cup {"present"})
OnUser(field, wanted, depends) ==
    Shape(field, wanted, depends, <<UserFields, {}>>, UserFields \cup DeviceFields \cup {"present"})
OnDns(field, reads, refresh) == Shape(field, {Yes}, {field}, <<reads>>, refresh)

ChangeKinds ==
    [DeviceRename    |-> OnDevice("name", {Yes}, {"name", "hostname"}),
     DeviceTags      |-> OnDevice("tags", {Yes}, {"tags", "owner"}),
     DeviceApproval  |-> OnDevice("authorized", {Yes}, {"authorized", "owner", "tags", "keyExpiryDisabled"} \cup RouteFields),
     DeviceKeyExpiry |-> OnDevice("keyExpiryDisabled", {Yes}, {"keyExpiryDisabled", "expires"}),
     DeviceExpireNow |-> OnDevice("expires", {Yes}, {"keyExpiryDisabled", "expires"}),
     DeviceDelete    |-> Shape("present", {No}, DeviceFields, <<DeviceFields, RouteFields>>, DeviceFields \cup {"present"}),
     DeviceRoutes    |-> Shape("enabledRoutes", {Yes}, RouteFields, <<RouteFields>>, DeviceFields \cup {"present"}),
     DnsNameservers  |-> OnDns("dns", {"dns"}, {"dns", "magicDNS"}),
     DnsPreferences  |-> OnDns("magicDNS", {"magicDNS"}, {"magicDNS"}),
     DnsSearchPaths  |-> OnDns("searchPaths", {"searchPaths"}, {"searchPaths"}),
     DnsSplitMapping |-> OnDns("splitDns", {"splitDns", "otherDomain"}, {"splitDns", "otherDomain"}),
     UserApproval    |-> OnUser("status", {Yes, Theirs}, {"status", "role", "deviceCount"}),
     UserRole        |-> OnUser("role", {Yes}, {"role", "status", "deviceCount"}),
     UserSuspend     |-> OnUser("status", {Yes}, UserFields),
     UserRestore     |-> OnUser("status", {Yes, Theirs}, {"status", "role", "deviceCount"}),
     UserDelete      |-> OnUser("present", {No}, UserFields)]

TailnetStates == [ChangeFields -> Values]
ChangeRecords ==
    [kind : DOMAIN ChangeKinds, there : TailnetStates, foreign : SUBSET ChangeFields, faults : Nat, forms : Nat, cancels : Nat]

ASSUME ChangeAssumption ==
    \A b \in ChangeBounds : b \in ChangeRecords /\ b.there["present"] = Yes

VARIABLES chance,     \* what may still happen
          there,      \* the tailnet
          lists,     \* what the lists show of it
          base,       \* base_snapshot of the request
          read,       \* reads of the preflight done
          fresh,      \* its snapshot
          phase,      \* where the change is
          arriving,   \* the write: "none", "sent", "accepted", "applied", "refused"
          reply,      \* mutation_result
          late,       \* the deadline of the verification has passed
          concluded,       \* AdminMutationOutcome: [state, why]
          inPlace,    \* history: what was asked has been in place since it was sent
          disturbed   \* history: somebody else set its field since

changeVars == <<chance, there, lists, base, read, fresh, phase, arriving, reply, late, concluded, inPlace, disturbed>>

Shaped    == ChangeKinds[chance.kind]
Field     == Shaped.field
Untold    == [state |-> "Editing", why |-> "nothing"]
Tale      == <<lists, base, read, fresh, phase, reply, late, concluded>>
AtPhase(p) == phase = p
Proceeds(p)  == phase' = p
Mischance     == chance.faults > 0 /\ chance' = [chance EXCEPT !.faults = @ - 1]

ChangeInit ==
    /\ chance \in ChangeBounds
    /\ there = chance.there /\ lists = there /\ base = there /\ fresh = there
    /\ read = 0
    /\ phase = "form"
    /\ arriving = "none" /\ reply = "none"
    /\ late = FALSE
    /\ concluded = Untold
    /\ inPlace = FALSE /\ disturbed = FALSE

\* The service's own measure of what was asked.
Is(state) == state[Field] \in Shaped.wanted
Noted(new) == inPlace' = (inPlace \/ (arriving' # "none" /\ new[Field] \in Shaped.wanted))

-----------------------------------------------------------------------------
(* The tailnet *)

SomebodyChanges(f) ==
    /\ f \in chance.foreign
    /\ \E v \in (IF f = "present" THEN {No} ELSE Values) \ {there[f]} : there' = [there EXCEPT ![f] = v]
    /\ chance' = [chance EXCEPT !.foreign = {}]
    /\ disturbed' = (disturbed \/ f \in {Field, "present"})
    /\ UNCHANGED <<Tale, arriving>> /\ Noted(there')

\* A write that was not refused takes effect sooner or later; one that was
\* accepted, certainly.
Applies ==
    /\ arriving \in {"sent", "accepted"} /\ there["present"] = Yes
    /\ arriving' = "applied"
    /\ \E v \in Shaped.wanted : there' = [there EXCEPT ![Field] = v]
    /\ UNCHANGED <<Tale, chance, disturbed>> /\ Noted(there')

Refuses ==
    /\ arriving = "sent" /\ reply = "none"
    /\ arriving' = "refused"
    /\ UNCHANGED <<Tale, chance, there, inPlace, disturbed>>

World == <<there, arriving, inPlace, disturbed>>

-----------------------------------------------------------------------------
(* Form, preflight and review *)

\* A refresh ends while the form is open.
RelistUnderForm ==
    /\ AtPhase("form") /\ lists # there
    /\ lists' = there
    /\ UNCHANGED <<World, chance, base, read, fresh, phase, reply, late, concluded>>

\* start_admin_change: the base is what the lists show now.
AcceptForm ==
    /\ AtPhase("form") /\ chance.forms > 0 /\ lists["present"] = Yes
    /\ base' = lists
    /\ read' = 0
    /\ chance' = [chance EXCEPT !.forms = @ - 1]
    /\ Proceeds("reading")
    /\ UNCHANGED <<World, lists, fresh, reply, late, concluded>>

\* fetch_admin_preflight: what is not there is an error like any other.
Fetch ==
    /\ AtPhase("reading") /\ read < Len(Shaped.reads) /\ there["present"] = Yes
    /\ read' = read + 1
    /\ fresh' = [f \in ChangeFields |-> IF f \in Shaped.reads[read + 1] THEN there[f] ELSE fresh[f]]
    /\ UNCHANGED <<World, chance, lists, base, phase, reply, late, concluded>>

FetchFails ==
    /\ AtPhase("reading") /\ read < Len(Shaped.reads)
    /\ IF there["present"] = Yes THEN Mischance ELSE UNCHANGED chance
    /\ Proceeds("form")
    /\ UNCHANGED <<World, lists, base, read, fresh, reply, late, concluded>>

\* preflight_conflict
Conflict == \E f \in Shaped.depends : base[f] # fresh[f]

Compare ==
    /\ AtPhase("reading") /\ read = Len(Shaped.reads)
    /\ Proceeds(IF Conflict THEN "form" ELSE "review")
    /\ UNCHANGED <<World, chance, lists, base, read, fresh, reply, late, concluded>>

Confirm ==
    /\ AtPhase("review")
    /\ Proceeds("token")
    /\ UNCHANGED <<World, chance, lists, base, read, fresh, reply, late, concluded>>

-----------------------------------------------------------------------------
(* run_admin_mutation *)

Says(state, why) == concluded' = [state |-> state, why |-> why] /\ Proceeds("told")
ByTale == UNCHANGED <<there, inPlace, disturbed, lists, base, read, fresh>>

\* No token, no client, or cancelled.
Unsent ==
    /\ AtPhase("token")
    /\ Mischance
    /\ Says("Failed", "unsent")
    /\ ByTale /\ UNCHANGED <<arriving, reply, late>>

\* validate_replacement: only advertised routes are newly approved.  An empty list
\* of the preflight is split into one empty name, which is no route: with nothing
\* advertised, or nothing approved so far, the change is refused here.
Sendable ==
    chance.kind = "DeviceRoutes" =>
        /\ Yes \in {fresh["advertisedRoutes"], fresh["enabledRoutes"]}
        /\ No \notin {fresh["advertisedRoutes"], fresh["enabledRoutes"]}

Dispatch ==
    /\ AtPhase("token")
    /\ Proceeds("sent")
    /\ IF Sendable THEN arriving' = "sent" /\ reply' = reply ELSE reply' = "refused" /\ arriving' = arriving
    /\ inPlace' = Is(there)
    /\ UNCHANGED <<chance, there, disturbed, lists, base, read, fresh, late, concluded>>

\* Mutant: a 5xx says that nothing was done.
Uncertain_ServerFailure(r) == r \in {"timeout", "rate limited", "cancelled"}

\* uncertain_admin_error; a lost connection is told like a timeout.  What is
\* unreadable is not among them: a body too large, or not the JSON expected.
Uncertain(r) == r \in {"timeout", "server failure", "rate limited", "cancelled"}

Replies ==
    /\ AtPhase("sent") /\ reply = "none"
    /\ \/ /\ arriving = "applied" \/ (arriving = "sent" /\ there["present"] = Yes)
          /\ arriving' = (IF arriving = "sent" THEN "accepted" ELSE arriving)
          /\ \/ reply' = "accepted" /\ UNCHANGED chance
             \/ reply' = "unreadable" /\ Mischance
       \/ arriving = "refused" /\ reply' = "refused" /\ UNCHANGED <<chance, arriving>>
       \/ arriving = "refused" /\ Mischance /\ reply' = "rate limited" /\ UNCHANGED arriving
       \/ Mischance /\ reply' \in {"timeout", "server failure"} /\ UNCHANGED arriving
       \/ /\ chance.cancels > 0 /\ chance' = [chance EXCEPT !.cancels = 0]
          /\ reply' = "cancelled" /\ UNCHANGED arriving
    /\ ByTale /\ UNCHANGED <<phase, late, concluded>>

Deadline ==
    /\ AtPhase("sent") /\ reply # "none" /\ ~late
    /\ late' = TRUE
    /\ ByTale /\ UNCHANGED <<chance, arriving, phase, reply, concluded>>

\* verify_admin_change.  A rename is verified by the host name too; a key
\* is expired only where expiry is enabled.
RenameVerified == there["hostname"] \in Shaped.wanted \/ Is(there)
ExpireVerified == there["keyExpiryDisabled"] # Yes /\ Is(there)
GoneVerified   == there["present"] = No
DeviceVerified ==
    CASE chance.kind = "DeviceRename"    -> RenameVerified
      [] chance.kind = "DeviceExpireNow" -> ExpireVerified
      [] OTHER                           -> Is(there)
DnsVerified    == Is(there)
UserVerified   == Is(there)

Verified ==
    CASE Field = "present"       -> GoneVerified
      [] Field \in DeviceFields -> there["present"] = Yes /\ DeviceVerified
      [] Field \in UserFields   -> there["present"] = Yes /\ UserVerified
      [] Field \in DnsFields    -> DnsVerified

\* A record that is gone cannot be read, except where that is the change.
Found404 == Field # "present" /\ there["present"] = No

\* The table of run_admin_mutation; seen: "verified", "mismatch", "error".
Outcome(seen) ==
    CASE reply = "accepted" /\ seen = "verified"  -> [state |-> "Succeeded", why |-> "verified"]
      [] reply = "accepted" /\ seen = "mismatch"  -> [state |-> "Failed", why |-> "not visible"]
      [] reply = "accepted" /\ seen = "error"     -> [state |-> "SucceededUnverified", why |-> "unread"]
      [] Uncertain(reply) /\ seen = "verified"    -> [state |-> "Succeeded", why |-> "visible"]
      [] Uncertain(reply) /\ seen # "verified"    -> [state |-> "OutcomeUnknown", why |-> "lost"]
      [] OTHER                                    -> [state |-> "Failed", why |-> "rejected"]

Concludes(seen) == concluded' = Outcome(seen) /\ Proceeds("told")

\* verify_admin_change_until: what may still become true is read again.
VerifyOnce ==
    /\ AtPhase("sent") /\ reply # "none"
    /\ \/ reply # "cancelled" /\ Verified /\ Concludes("verified") /\ UNCHANGED chance
       \/ reply # "cancelled" /\ ~Verified /\ ~Found404 /\ late /\ Concludes("mismatch") /\ UNCHANGED chance
       \/ Found404 /\ Concludes("error") /\ UNCHANGED chance
       \/ late /\ Mischance /\ Concludes("error")
       \/ reply = "cancelled" /\ Concludes("error") /\ UNCHANGED chance
       \/ chance.cancels > 0 /\ Concludes("error") /\ chance' = [chance EXCEPT !.cancels = 0]
    /\ ByTale /\ UNCHANGED <<arriving, reply, late>>

\* refresh_resources_for_change, extend_admin_refresh_for_owned_devices.
Refreshed(state) == [f \in ChangeFields |-> IF f \in Shaped.refresh THEN state[f] ELSE lists[f]]

Refetch ==
    /\ AtPhase("told")
    /\ \/ lists' = Refreshed(there) /\ Proceeds("over") /\ UNCHANGED chance
       \/ Mischance /\ Proceeds("stale") /\ UNCHANGED lists
    /\ UNCHANGED <<World, base, read, fresh, reply, late, concluded>>

ChangeNext ==
    \/ \E f \in ChangeFields : SomebodyChanges(f)
    \/ Applies
    \/ Refuses
    \/ RelistUnderForm
    \/ AcceptForm
    \/ Fetch
    \/ FetchFails
    \/ Compare
    \/ Confirm
    \/ Unsent
    \/ Dispatch
    \/ Replies
    \/ Deadline
    \/ VerifyOnce
    \/ Refetch

ChangeSpec == ChangeInit /\ [][ChangeNext]_changeVars

-----------------------------------------------------------------------------
(* Properties *)

ChangeVerdicts ==
    [state : {"Editing", "Succeeded", "SucceededUnverified", "Failed", "OutcomeUnknown"},
     why : {"nothing", "verified", "not visible", "unread", "visible", "lost", "rejected", "unsent"}]

\* The tailnet, what is shown and kept of it, and where the change is.
ChangeTypeOK ==
    /\ chance \in ChangeRecords
    /\ {there, lists, base, fresh} \subseteq TailnetStates
    /\ read \in 0..Len(Shaped.reads)
    /\ phase \in {"form", "reading", "review", "token", "sent", "told", "over", "stale"}
    /\ arriving \in {"none", "sent", "accepted", "applied", "refused"}
    /\ reply \in {"none", "accepted", "unreadable", "refused", "timeout", "server failure", "rate limited", "cancelled"}
    /\ concluded \in ChangeVerdicts
    /\ late \in BOOLEAN /\ inPlace \in BOOLEAN /\ disturbed \in BOOLEAN

\* What verification takes for the change: asked of the machine's own host
\* name, as it is or was, a rename is found done whatever became of the write.
Ambiguous ==
    chance.kind = "DeviceRename" /\ {chance.there["hostname"], there["hostname"]} \cap Shaped.wanted # {}

\* What the user is told of a change is so.  Done: it has been in place since
\* it was sent.  Rejected or not sent: it did not take effect and never will,
\* unless the answer to it was not one Tale can read.  Done and read again: the
\* lists show it, unless somebody else has changed it since.
ChangeIsAsTold ==
    /\ concluded.state = "Succeeded" => inPlace \/ Ambiguous
    /\ concluded.why = "unsent" => arriving = "none"
    /\ concluded.why = "rejected" => arriving \in {"none", "refused"} \/ reply = "unreadable"
    /\ concluded.state = "Succeeded" /\ AtPhase("over") => lists[Field] \in Shaped.wanted \/ disturbed \/ Ambiguous

=============================================================================
