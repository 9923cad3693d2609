-------------------------- MODULE OperatorRequests --------------------------
(***************************************************************************)
(* What the user asks of the local node: its preferences, the exit node it *)
(* uses, what it advertises, its connection, its accounts and its system   *)
(* policy.  From the form and what it is filled with, through the review,  *)
(* the command line and what the daemon makes of it, to what is read back  *)
(* and what the task is said to have done.  What is known of the node is   *)
(* read at once here; how the reads cross is in LocalObserver.             *)
(***************************************************************************)
EXTENDS Integers, Sequences

CONSTANTS Peers,            \* devices that may be offered as exit nodes
          LocalAccounts,    \* account profiles of the local client
          OperatorBounds    \* what may happen; see OperatorAssumption

OperatorKinds == {"preferences", "exit", "advertise", "connect", "disconnect", "switch", "remove", "reload", "login", "logout"}

NoAccount == "no account"
NoDevice  == "no device"

\* The preferences: two of the flags and names of LocalPreferences stand for
\* all of them, one list for the routes and the relay's endpoints.
Flags  == {"dns", "name"}
Fields == Flags \cup {"exit", "lan", "routes", "connector", "port"}

\* What a field of a form may hold; "offer" and "risk" are fields of the form only.
FieldValues == [dns |-> {"yes", "no"}, name |-> {"x", "y"}, exit |-> {"none", "auto:any"} \cup Peers, lan |-> {"yes", "no"},
           routes |-> SUBSET {"net", "default"}, connector |-> {"yes", "no"}, port |-> {"off", "1"},
           offer |-> {"yes", "no"}, risk |-> {"yes", "no"}]
Preferences == [dns : FieldValues.dns, name : FieldValues.name, exit : FieldValues.exit, lan : FieldValues.lan, routes : FieldValues.routes,
                connector : FieldValues.connector, port : FieldValues.port]

\* System policies, by what they take from the user.
Policies == Flags \cup {"exit", "lan", "offer", "alwaysOn", "noOverride"}
Managed(policy) == policy \cap (Flags \cup {"exit", "lan", "offer"})

\* What may happen: the kinds of request, how many steps of each sort, what may
\* be typed, the fields an older daemon leaves out, the node at first.
IsStock(b) ==
    /\ DOMAIN b = {"kinds", "asks", "foreign", "faults", "cancels", "reads", "typed", "silent", "policies", "prefs", "running"}
    /\ b.kinds \subseteq OperatorKinds
    /\ {b.asks, b.foreign, b.faults, b.cancels, b.reads} \subseteq Nat
    /\ \A t \in b.typed : DOMAIN t \subseteq DOMAIN FieldValues /\ \A f \in DOMAIN t : t[f] \in FieldValues[f]
    /\ b.silent \subseteq Fields /\ b.policies \subseteq Policies
    /\ b.prefs \in [LocalAccounts \cup {NoAccount} -> Preferences]
    /\ b.running \in {"yes", "no", "login"}

ASSUME OperatorAssumption ==
    /\ LocalAccounts # {} /\ Peers \cap {NoDevice, "none", "auto:any"} = {}
    /\ \A b \in OperatorBounds : IsStock(b)

VARIABLES stock,   \* what may still happen
          node,     \* the daemon: its preferences by account, its peers, its policy (external)
          known,    \* App.local_preferences, system_policy, local_accounts, the candidates; the overlays
          work      \* the mutation in flight or the last one, with what it did

operatorVars == <<stock, node, known, work>>

NoWork == [step |-> "none"]
Blank  == [f \in Fields |-> "unknown"]

OperatorInit ==
    /\ stock \in OperatorBounds
    /\ node = [prefs |-> stock.prefs, peers |-> Peers, policy |-> {}, accounts |-> LocalAccounts,
               active |-> CHOOSE a \in LocalAccounts : TRUE, running |-> stock.running]
    /\ known = [read |-> FALSE, prefs |-> Blank, managed |-> {}, policy |-> {}, peers |-> {},
                accounts |-> {}, selected |-> NoAccount, open |-> <<>>]
    /\ work = NoWork

MayStill(what) == stock[what] > 0 /\ stock' = [stock EXCEPT ![what] = @ - 1]

-----------------------------------------------------------------------------
(* What is known *)

PrefsOf(n)  == n.prefs[n.active]
Offers(p)   == "default" \in p.routes                    \* both default routes are advertised
Reported(f) == f \notin stock.silent                    \* an older daemon does not return it

\* The device an automatic choice has come to, or none yet.
Resolved(n) == IF n.peers = {} THEN NoDevice ELSE CHOOSE d \in n.peers : TRUE
ExitId(n)   == LET e == PrefsOf(n).exit IN
               IF e = "auto:any" THEN Resolved(n) ELSE IF e = "none" THEN NoDevice ELSE e

\* decode_preferences.  The device an automatic choice came to is part of it.
Decoded(n) == [f \in Fields \cup {"id"} |->
                  IF f = "id" THEN ExitId(n) ELSE IF Reported(f) THEN PrefsOf(n)[f] ELSE "unknown"]

\* apply_system_policy_editability adds a mark, and only new preferences take one away.
CanEdit(k, f) == k.read /\ Reported(f) /\ f \notin k.managed

WithPreferences(k, p) == [k EXCEPT !.read = TRUE, !.prefs = p, !.managed = Managed(k.policy)]
WithPolicy(k, policy) == [k EXCEPT !.policy = policy, !.managed = @ \cup Managed(policy)]
WithAccounts(k, accounts) ==
    [k EXCEPT !.accounts = accounts, !.selected = IF @ \in accounts THEN @ ELSE IF accounts = {} THEN NoAccount ELSE CHOOSE a \in accounts : TRUE]

\* invalidate_local_state.
Cleared(k) == [k EXCEPT !.read = FALSE, !.prefs = Blank, !.managed = {}, !.policy = {}, !.peers = {}]

Learn(k) == known' = k /\ known' # known /\ MayStill("reads") /\ UNCHANGED <<node, work>>
PreferencesArrive == Learn(WithPreferences(known, Decoded(node)))
PolicyArrives     == Learn(WithPolicy(known, node.policy))
AccountsArrive    == Learn(WithAccounts(known, node.accounts))
PeersArrive       == Learn([known EXCEPT !.peers = node.peers])

-----------------------------------------------------------------------------
(* Forms *)

\* The overlays, the uppermost first.
Foremost   == Head(known.open)
Atop(k, o) == [k EXCEPT !.open = <<o>> \o @]
Beneath(k) == [k EXCEPT !.open = Tail(@)]

\* open_preferences_form: a field is left alone until it is touched.
PreferencesForm == [f \in Flags |-> "unchanged"]

\* open_exit_node_form: the device in use is chosen, an automatic choice
\* appears as the device it has come to.
ExitForm(p) == [exit |-> IF p.id = NoDevice THEN "none" ELSE p.id, lan |-> IF Reported("lan") THEN p.lan ELSE "no"]

\* open_advertisement_form: every field holds what the daemon reports.
AdvertiseForm(p) ==
    [routes |-> IF Reported("routes") THEN p.routes ELSE {},
     offer |-> IF Reported("routes") /\ Offers(p) THEN "yes" ELSE "no",
     connector |-> IF Reported("connector") THEN p.connector ELSE "no",
     risk |-> "no", port |-> IF Reported("port") THEN p.port ELSE "off"]

FormKinds == {"preferences", "exit", "advertise"}

\* open_operator_form.  What cannot be edited is locked in the first, the
\* others are refused as a whole.
FormValues(kind, p) == CASE kind = "preferences" -> PreferencesForm
                         [] kind = "exit"        -> ExitForm(p)
                         [] OTHER                -> AdvertiseForm(p)
OperatorForm(k, kind) ==
    [what |-> "form", kind |-> kind, values |-> FormValues(kind, k.prefs),
     locked |-> IF kind = "preferences" THEN {f \in Flags : ~CanEdit(k, f)} ELSE {}, shown |-> k.prefs]

\* accept_preferences_form, accept_exit_node_form, accept_advertisement_form:
\* what the filled form asks for, or nothing when it is refused.
Filled(form, typed) == [f \in DOMAIN form.values |-> IF f \in DOMAIN typed THEN typed[f] ELSE form.values[f]]
Touched(form, typed) == {f \in DOMAIN typed : typed[f] # form.values[f]}

PreferencesAsked(form, v) ==
    LET changed == {f \in Flags \ form.locked : v[f] # "unchanged"} IN
    IF changed = {} THEN {} ELSE {[kind |-> "preferences", set |-> [f \in changed |-> v[f]]]}
ExitAsked(k, v) ==
    IF v.exit \notin {"none", "auto:any"} \cup k.peers \/ (v.exit = "none" /\ v.lan = "yes") THEN {}
    ELSE {[kind |-> "exit", set |-> [exit |-> v.exit, lan |-> v.lan]]}
AdvertiseAsked(v) ==
    IF v.risk # v.connector THEN {}
    ELSE {[kind |-> "advertise", set |-> [f \in {"routes", "offer", "connector", "port"} |-> v[f]], risk |-> v.risk]}
RequestsFilled(k, form, v) == CASE form.kind = "preferences" -> PreferencesAsked(form, v)
                       [] form.kind = "exit"        -> ExitAsked(k, v)
                       [] OTHER                     -> AdvertiseAsked(v)

-----------------------------------------------------------------------------
(* The review *)

\* validate_mutation_request, when the review opens and never after that.
ValidRequest(k, q) ==
    CASE q.kind = "disconnect"  -> "alwaysOn" \notin k.policy
      [] q.kind = "preferences" -> \A f \in DOMAIN q.set : CanEdit(k, f)
      [] q.kind = "exit"        -> "noOverride" \notin k.policy /\ CanEdit(k, "exit") /\ CanEdit(k, "lan")
      [] q.kind = "advertise"   -> "offer" \notin k.managed /\ \A f \in {"routes", "connector", "port"} : CanEdit(k, f)
      [] OTHER                  -> TRUE

\* open_mutation_confirmation.
TypedFor(q) == CASE q.kind = "disconnect" -> "DISCONNECT"
                 [] q.kind = "remove"     -> q.account
                 [] q.kind = "logout"     -> "LOGOUT"
                 [] q.kind = "advertise" /\ q.risk = "yes" -> "MAC-APP-CONNECTOR"
                 [] OTHER                 -> "none"

\* mutation_preview_lines: from what to what, field by field.
Line(k, q, f) == <<IF f # "offer" THEN k.prefs[f] ELSE IF Reported("routes") /\ Offers(k.prefs) THEN "yes" ELSE "no", q.set[f]>>
Preview(k, q) == IF "set" \in DOMAIN q THEN [f \in DOMAIN q.set |-> Line(k, q, f)] ELSE <<>>

Reviewing(k, q, form, touched) ==
    IF ValidRequest(k, q)
    THEN Atop(k, [what |-> "review", request |-> q, phrase |-> TypedFor(q), lines |-> Preview(k, q), policy |-> k.managed,
                  form |-> form, touched |-> touched])
    ELSE k

\* A login or a logout is handed the terminal (TerminalHandoff).
InTerminal == {"login", "logout"}

\* The accounts are acted on by the selected row.
RequestFor(k, kind) ==
    CASE kind \in {"switch", "remove"} -> IF k.selected = NoAccount THEN {} ELSE {[kind |-> kind, account |-> k.selected]}
      [] OTHER -> {[kind |-> kind]}

NoForm == [what |-> "none"]

AskOperator(kind) ==
    /\ kind \in stock.kinds /\ known.open = <<>> /\ MayStill("asks")
    /\ IF kind \in FormKinds THEN known.read /\ Reported("dns") /\ known' = Atop(known, OperatorForm(known, kind))
       ELSE \E q \in RequestFor(known, kind) : known' = Reviewing(known, q, NoForm, {})
    /\ UNCHANGED <<node, work>>

\* Locked fields take no input.
AcceptOperatorForm ==
    /\ known.open # <<>> /\ Foremost.what = "form"
    /\ \E typed \in stock.typed :
          /\ DOMAIN typed \subseteq DOMAIN Foremost.values \ Foremost.locked
          /\ \E q \in RequestsFilled(known, Foremost, Filled(Foremost, typed)) : known' = Reviewing(Beneath(known), q, Foremost, Touched(Foremost, typed))
    /\ UNCHANGED <<stock, node, work>>

CloseOperator ==
    /\ known.open # <<>> /\ known' = Beneath(known)
    /\ UNCHANGED <<stock, node, work>>

SelectAccount ==
    /\ known.open = <<>> /\ stock.kinds \cap {"switch", "remove"} # {}
    /\ \E a \in known.accounts \ {known.selected} : known' = [known EXCEPT !.selected = a]
    /\ UNCHANGED <<stock, node, work>>

InFlight == work.step \notin {"none", "ended"}

\* accept_confirmation, the phrase typed: one mutation at a time.
AcceptOperator ==
    /\ known.open # <<>> /\ Foremost.what = "review"
    /\ IF Foremost.request.kind \in InTerminal THEN known' = Beneath(known) /\ UNCHANGED work
       ELSE /\ ~InFlight
            /\ known' = Beneath(known)
            /\ work' = [step |-> "queued", review |-> Foremost, cancelled |-> FALSE, result |-> "none", status |-> "none",
                        before |-> node, after |-> node, read |-> node]
    /\ UNCHANGED <<stock, node>>

-----------------------------------------------------------------------------
(* The command lines, and what the daemon makes of them *)

\* exit_node_command, set_command, advertisement_command: what follows "set".
ExitFlags(set) == [set EXCEPT !.lan = IF set.exit = "none" THEN "no" ELSE @]
FlagsOf(q) == IF q.kind = "exit" THEN ExitFlags(q.set) ELSE q.set

\* tailscale set: to offer an exit node is to advertise the default routes;
\* what a policy holds stays as it is.
Preferred(p, flags, held) ==
    LET routes == (IF "routes" \in DOMAIN flags THEN flags.routes ELSE p.routes)
                  \cup IF "offer" \in DOMAIN flags /\ flags.offer = "yes" THEN {"default"} ELSE {} IN
    [f \in Fields |-> IF f \in held THEN p[f]
                      ELSE IF f = "routes" THEN routes
                      ELSE IF f \in DOMAIN flags THEN flags[f] ELSE p[f]]
Took(n, q) ==
    CASE q.kind \in FormKinds -> [n EXCEPT !.prefs[n.active] = Preferred(@, FlagsOf(q), Managed(n.policy))]
      [] q.kind = "connect"    -> [n EXCEPT !.running = IF @ = "login" THEN @ ELSE "yes"]
      [] q.kind = "disconnect" -> [n EXCEPT !.running = IF @ = "login" THEN @ ELSE "no"]
      [] q.kind = "switch"     -> IF q.account \in n.accounts THEN [n EXCEPT !.active = q.account] ELSE n
      [] q.kind = "remove"     -> [n EXCEPT !.accounts = @ \ {q.account}, !.active = IF @ = q.account THEN NoAccount ELSE @]
      [] OTHER                 -> n
WouldRefuse(n, q) == q.kind \in {"switch", "remove"} /\ q.account \notin n.accounts

Reaches(step, result) == work' = [work EXCEPT !.step = step, !.result = result]
Request == work.review.request

CancelOperator ==
    /\ InFlight /\ ~work.cancelled /\ MayStill("cancels")
    /\ work' = [work EXCEPT !.cancelled = TRUE]
    /\ UNCHANGED <<node, known>>

\* run_local_mutation, up to the end of the command.  A command that was
\* stopped or timed out may have been taken or not.
DispatchOperator ==
    /\ work.step = "queued"
    /\ IF work.cancelled THEN Reaches("sent", "Cancelled") ELSE Reaches("command", "none")
    /\ UNCHANGED <<stock, node, known>>
OperatorCommandEnds ==
    /\ work.step = "command"
    /\ \E status \in {"ok", "nonzero", "stopped"} :
          /\ status = "ok" => ~WouldRefuse(node, Request)
          /\ IF status = "ok" \/ (status = "stopped" /\ work.cancelled) \/ (status = "nonzero" /\ WouldRefuse(node, Request))
             THEN UNCHANGED stock ELSE MayStill("faults")
          /\ node' \in CASE status = "ok" -> {Took(node, Request)}
                          [] status = "nonzero" -> {node}
                          [] OTHER -> {node} \cup IF WouldRefuse(node, Request) THEN {} ELSE {Took(node, Request)}
          /\ work' = [work EXCEPT !.step = "read", !.status = status, !.before = node, !.after = node']
    /\ UNCHANGED known

\* verify_preference_request, verify_exit_node, verify_advertisements and the
\* rest of verify_mutation, of what is read.  "?" is an answer that cannot be compared.
YesNo(yes) == IF yes THEN "yes" ELSE "no"
VerifyFlags(p, set) ==
    IF \E f \in DOMAIN set : ~Reported(f) THEN "?" ELSE YesNo(\A f \in DOMAIN set : p[f] = set[f])

\* Mutant: no exit node in use is no device in use.
VerifyExit_ById(p, set) ==
    IF ~Reported("exit") \/ ~Reported("lan") THEN "?"
    ELSE YesNo(/\ CASE set.exit = "none"     -> p.id = NoDevice
                     [] set.exit = "auto:any" -> p.exit = "auto:any"
                     [] OTHER                 -> p.id = set.exit
              /\ p.lan = ExitFlags(set).lan)

VerifyExit(p, set) ==
    IF ~Reported("exit") \/ ~Reported("lan") THEN "?"
    ELSE YesNo(/\ CASE set.exit = "none"     -> p.exit # "auto:any" /\ p.id = NoDevice
                     [] set.exit = "auto:any" -> p.exit = "auto:any"
                     [] OTHER                 -> p.id = set.exit
              /\ p.lan = ExitFlags(set).lan)
VerifyAdvertised(p, set) ==
    IF ~Reported("routes") THEN "?"
    ELSE YesNo(/\ p.routes = set.routes /\ (set.offer = "yes" <=> Offers(p))
              /\ \A f \in {"connector", "port"} : p[f] = set[f])
Verify(n, q) ==
    LET p == Decoded(n) IN
    CASE q.kind = "preferences" -> VerifyFlags(p, q.set)
      [] q.kind = "exit"        -> VerifyExit(p, q.set)
      [] q.kind = "advertise"   -> VerifyAdvertised(p, q.set)
      [] q.kind = "connect"     -> YesNo(n.running = "yes")
      [] q.kind = "disconnect"  -> YesNo(n.running = "no")
      [] q.kind = "switch"      -> YesNo(n.active = q.account)
      [] q.kind = "remove"      -> YesNo(q.account \notin n.accounts)
      [] OTHER                  -> "yes"

\* The state is read whatever the command said; a failed command is told as one.
ResultOf(status, verified) ==
    IF status = "nonzero" THEN "CommandFailed"
    ELSE CASE verified = "yes" -> "Verified"
           [] verified = "no"  -> "Mismatch"
           [] OTHER            -> IF status = "stopped" THEN "Unknown" ELSE "ReadFailed"
ReadOperator ==
    /\ work.step = "read"
    /\ \/ /\ work' = [work EXCEPT !.step = "sent", !.result = ResultOf(work.status, Verify(node, Request)), !.read = node]
          /\ ~work.cancelled /\ UNCHANGED stock
       \/ /\ work' = [work EXCEPT !.step = "sent", !.result = ResultOf(work.status, "?"), !.read.running = "unread"]
          /\ IF work.cancelled THEN UNCHANGED stock ELSE MayStill("faults")
    /\ UNCHANGED <<node, known>>

\* LocalEvent::MutationFinished: what was read is shown; a change of account
\* empties what was known first; a node that needs a login is offered one.
OfAccount == {"switch", "remove"}
Relearned(k, q, r) ==
    CASE q.kind \in OfAccount -> WithPreferences(WithAccounts([k EXCEPT !.peers = r.peers], r.accounts), Decoded(r))
      [] q.kind = "reload"    -> WithPolicy(k, r.policy)
      [] q.kind \in FormKinds -> WithPreferences(k, Decoded(r))
      [] OTHER                -> k
LoginReview == [what |-> "review", request |-> [kind |-> "login"], phrase |-> "none", lines |-> <<>>, policy |-> {},
                form |-> NoForm, touched |-> {}]
FinishOperator ==
    /\ work.step = "sent"
    /\ LET was == work.read.running # "unread" /\ work.result # "Cancelled"
           emptied == IF Request.kind \in OfAccount /\ work.result \notin {"CommandFailed", "Cancelled"} THEN Cleared(known) ELSE known
           shown == IF was THEN Relearned(emptied, Request, work.read) ELSE emptied IN
       known' = IF Request.kind = "connect" /\ was /\ work.read.running = "login" THEN Atop(shown, LoginReview) ELSE shown
    /\ Reaches("ended", work.result)
    /\ UNCHANGED <<stock, node>>

\* Other hands: another client of the daemon, its administrator, the tailnet.
OthersSet ==
    /\ MayStill("foreign")
    /\ \/ \E t \in stock.typed : /\ DOMAIN t \subseteq Fields
                                 /\ node' = [node EXCEPT !.prefs[node.active] = Preferred(@, t, Managed(node.policy))]
       \/ \E m \in stock.policies : node' = [node EXCEPT !.policy = IF m \in @ THEN @ \ {m} ELSE @ \cup {m}]
       \/ \E d \in Peers : node' = [node EXCEPT !.peers = IF d \in @ THEN @ \ {d} ELSE @ \cup {d}]
       \/ stock.kinds \cap {"switch", "remove"} # {} /\ \E a \in node.accounts : node' = [node EXCEPT !.active = a]
       \/ stock.kinds \cap {"connect", "disconnect"} # {} /\ \E r \in {"yes", "no", "login"} : node' = [node EXCEPT !.running = r]
    /\ node' # node
    /\ UNCHANGED <<known, work>>

OperatorNext ==
    \/ PreferencesArrive \/ PolicyArrives \/ AccountsArrive \/ PeersArrive
    \/ \E kind \in OperatorKinds : AskOperator(kind)
    \/ AcceptOperatorForm \/ CloseOperator \/ SelectAccount \/ AcceptOperator \/ CancelOperator
    \/ DispatchOperator \/ OperatorCommandEnds \/ ReadOperator \/ FinishOperator \/ OthersSet

OperatorSpec == OperatorInit /\ [][OperatorNext]_operatorVars

-----------------------------------------------------------------------------
(* Types *)

\* Preferences as the daemon reports them; an automatic choice apart, the
\* device in use is the one that was chosen.
IsReading(p) ==
    /\ DOMAIN p = Fields \cup {"id"} /\ p.id \in Peers \cup {NoDevice}
    /\ \A f \in Fields : IF Reported(f) THEN p[f] \in FieldValues[f] ELSE p[f] = "unknown"
    /\ Reported("exit") /\ p.exit # "auto:any" => p.id = IF p.exit = "none" THEN NoDevice ELSE p.exit

NodesIn(states) ==
    [prefs : [LocalAccounts \cup {NoAccount} -> Preferences], peers : SUBSET Peers, policy : SUBSET Policies,
     accounts : SUBSET LocalAccounts, active : LocalAccounts \cup {NoAccount}, running : states]
Nodes    == NodesIn({"yes", "no", "login"})
NodesRead == NodesIn({"yes", "no", "login", "unread"})

IsForm(o) ==
    /\ DOMAIN o = {"what", "kind", "values", "locked", "shown"} /\ o.what = "form" /\ o.kind \in FormKinds
    /\ IsReading(o.shown) /\ o.values = FormValues(o.kind, o.shown) /\ o.locked \subseteq Flags
IsReview(o) ==
    /\ DOMAIN o = {"what", "request", "phrase", "lines", "policy", "form", "touched"} /\ o.what = "review"
    /\ o.request.kind \in OperatorKinds /\ ("set" \in DOMAIN o.request <=> o.request.kind \in FormKinds)
    /\ o.form = NoForm \/ IsForm(o.form)

IsKnown(k) ==
    /\ DOMAIN k = {"read", "prefs", "managed", "policy", "peers", "accounts", "selected", "open"}
    /\ k.read \in BOOLEAN /\ (k.read => IsReading(k.prefs))
    /\ k.managed \subseteq Policies /\ k.policy \subseteq Policies /\ k.peers \subseteq Peers
    /\ k.accounts \subseteq LocalAccounts /\ k.selected \in LocalAccounts \cup {NoAccount}
    /\ \A i \in 1..Len(k.open) : IsForm(k.open[i]) \/ IsReview(k.open[i])
IsWork(w) ==
    /\ DOMAIN w = {"step", "review", "cancelled", "result", "status", "before", "after", "read"}
    /\ w.step \in {"queued", "command", "read", "sent", "ended"} /\ IsReview(w.review) /\ w.cancelled \in BOOLEAN
    /\ w.result \in {"none", "Cancelled", "CommandFailed", "Verified", "Mismatch", "Unknown", "ReadFailed"}
    /\ w.status \in {"none", "ok", "nonzero", "stopped"}
    /\ w.before \in Nodes /\ w.after \in Nodes /\ w.read \in NodesRead

\* The typed state of the local node's requests.
OperatorTypeOK ==
    /\ IsStock(stock) /\ node \in Nodes /\ IsKnown(known)
    /\ work = NoWork \/ IsWork(work)

-----------------------------------------------------------------------------
(* Properties *)

\* A command reaches the account it runs under and there the fields of the
\* review, to the values it showed; to offer an exit node is a matter of routes.
InReview(q, f) == "set" \in DOMAIN q /\ f \in DOMAIN q.set
ReachesOnlyReviewed(w) ==
    LET q == w.review.request IN
    /\ \A a \in DOMAIN w.before.prefs, f \in Fields :
          w.after.prefs[a][f] # w.before.prefs[a][f] =>
              /\ a = w.before.active /\ InReview(q, f)
              /\ IF f = "routes" THEN w.after.prefs[a][f] \ {"default"} = w.review.lines[f][2] \ {"default"}
                 ELSE w.after.prefs[a][f] = w.review.lines[f][2]
    /\ w.before.accounts \ w.after.accounts \subseteq IF q.kind = "remove" THEN {w.review.phrase} ELSE {}
    /\ w.after.running = "no" /\ w.before.running # "no" => w.review.phrase = "DISCONNECT"

\* What the user left as the form showed it is as it was, if the node still was
\* as shown.  (Where an exit node is chosen automatically, the form shows the
\* device the choice has come to, and asks for that one.)
LeavesTheRest(w) ==
    LET form == w.review.form  mine == w.before.prefs[w.before.active]  now == w.after.prefs[w.before.active] IN
    form # NoForm =>
        \A f \in Fields \ w.review.touched :
            /\ mine[f] = form.shown[f] /\ form.shown.exit # "auto:any"
            /\ f = "routes" => "offer" \notin w.review.touched
            => now[f] = mine[f]

\* What is said to be verified was so of every field that was asked for.
BornOut(w) ==
    LET q == w.review.request  r == w.read  p == PrefsOf(r)
        has(f) == IF f = "exit" THEN IF q.set.exit \in {"none", "auto:any"} THEN p.exit = q.set.exit ELSE ExitId(r) = q.set.exit
                  ELSE IF f = "offer" THEN q.set.offer = "yes" <=> Offers(p)
                  ELSE p[f] = q.set[f] IN
    CASE q.kind \in FormKinds -> \A f \in DOMAIN q.set : has(f)
      [] q.kind = "connect"    -> r.running = "yes"
      [] q.kind = "disconnect" -> r.running = "no"
      [] q.kind = "switch"     -> r.active = q.account
      [] q.kind = "remove"     -> q.account \notin r.accounts
      [] OTHER                 -> TRUE

\* A local mutation does what its review showed and nothing beside it
\* (admin_reducer.rs mutation_preview_lines, local/client.rs), leaves alone what
\* the user left alone in the form (action_reducer.rs open_preferences_form,
\* open_advertisement_form), is not asked for where a policy known by then
\* holds the field (validate_mutation_request), runs nothing once it is said to
\* have been cancelled, and is said to be verified only when that was read
\* (runtime.rs verify_mutation).
CommandsDoAsReviewed ==
    work # NoWork =>
        /\ ReachesOnlyReviewed(work) /\ LeavesTheRest(work)
        /\ \A f \in work.review.policy : ~InReview(work.review.request, f)
        /\ work.result = "Cancelled" => work.after = work.before /\ work.status = "none"
        /\ work.result = "Verified" => BornOut(work)

=============================================================================
