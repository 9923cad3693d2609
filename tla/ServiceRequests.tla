--------------------------- MODULE ServiceRequests ---------------------------
(***************************************************************************)
(* What is asked of the local client's services: the row or the form it    *)
(* comes from, the confirmation and its phrase, what is asked again when   *)
(* it is accepted, the command line it becomes, what the client makes of   *)
(* that, what is read afterwards and what the task is said to have done.   *)
(* The lists are read at once here; how their answers cross, and the       *)
(* account that changes under them, are in LocalServices.                  *)
(***************************************************************************)
EXTENDS Integers, Sequences, FiniteSets
LOCAL INSTANCE SequencesExt

CONSTANTS Spots,         \* <<port, mount>>, in the order of the table
          RootMount,      \* the mount "/"
          Orders,         \* bound: tasks started
          RequestBounds   \* what may happen; see RequestAssumption

Web  == {"https", "http"}                                \* Listener::allows_path
Capability == [serve |-> "serve", edit |-> "serve", remove |-> "serve", serveReset |-> "serve", unpublish |-> "serve",
          funnel |-> "funnel", publish |-> "funnel", funnelReset |-> "funnel", send |-> "taildrop", receive |-> "taildrop",
          share |-> "drive", rename |-> "drive", unshare |-> "drive", cert |-> "cert", metrics |-> "metrics", bug |-> "bug"]

Here      == ToSet(Spots)
HerePorts == {p[1] : p \in Here}
Nowhere   == [kind |-> "none", backend |-> "none", proxy |-> "none"]
AnyMount  == "any"                                       \* a command that names no mount

\* Listener and Backend; the header of the PROXY protocol, by its version.
Listeners == Web \cup {"tcp", "tls"}
BackendKinds == {"port", "url", "insecure", "socket", "folder"}
Proxies   == {"none", "1", "2"}
Handlers  == [kind : Listeners, backend : BackendKinds, proxy : Proxies]

\* Only what is served over the web has mounts; a port is public while something is served on it.
ServableAt(handler, p) == handler.kind \in Web \/ p[2] = RootMount
PortsOf(handler) == {p[1] : p \in {q \in DOMAIN handler : handler[q] # Nowhere}}

\* What may happen: the capabilities of the client, the kinds of request, how
\* many steps of each sort, what is served at first, what may be typed.
Slacks ==
    [caps : SUBSET {Capability[k] : k \in DOMAIN Capability}, kinds : SUBSET DOMAIN Capability,
     asks : Nat, moves : Nat, faults : Nat, foreign : Nat, omits : BOOLEAN,
     start : UNION {[at -> Handlers] : at \in SUBSET Here}, public : SUBSET HerePorts,
     typed : SUBSET [place : Here, handler : Handlers]]

ASSUME RequestAssumption ==
    /\ \A p \in Here : p \in Int \X {p[2]} /\ p[2] # AnyMount
    /\ \A b \in RequestBounds :
          /\ b \in Slacks
          /\ \A p \in DOMAIN b.start : ServableAt(b.start[p], p)
          /\ b.public \subseteq PortsOf(b.start)

VARIABLES slack,    \* what may still happen
          machine,  \* the client's configuration, its shares and targets, the files (external)
          store,    \* the reducer: the lists, the selection, what is open, the locks
          order     \* the service tasks

requestVars == <<slack, machine, store, order>>

NoOrder == [step |-> "none"]
NothingOpen  == [what |-> "nothing"]

RequestsInit ==
    /\ slack \in RequestBounds
    /\ machine = [handler |-> [p \in Here |-> IF p \in DOMAIN slack.start THEN slack.start[p] ELSE Nowhere],
                  public |-> slack.public, shares |-> {"docs"}, targets |-> {1, 2}, there |-> {"folder"}]
    /\ store = [serve |-> {}, funnel |-> {}, shares |-> {}, targets |-> {}, domains |-> "Loading", cli |-> TRUE,
                metrics |-> "Idle", report |-> "Idle", selected |-> 1, device |-> 1, open |-> NothingOpen, locks |-> {}]
    /\ order = [n \in Orders |-> NoOrder]

Uses(what) == slack[what] > 0 /\ slack' = [slack EXCEPT ![what] = @ - 1]

-----------------------------------------------------------------------------
(* Mappings, as they are asked for and as they are listed *)

Mapping(place, handler, public) ==
    [port |-> place[1], mount |-> place[2], kind |-> handler.kind, backend |-> handler.backend, proxy |-> handler.proxy,
     public |-> public]
AddressOf(m) == <<m.port, m.mount>>
SameIdentity(a, b) == AddressOf(a) = AddressOf(b) /\ a.kind = b.kind

\* ServiceMapping::validate.
ValidMapping(m) ==
    /\ m.kind \in Web \/ m.mount = RootMount
    /\ m.kind = "tcp" \/ m.proxy = "none"
    /\ m.public => m.kind # "http"

\* A port that was served is shown as the address it stands for: Backend::parse
\* makes a URL of it, so it is another backend than the one that was asked for.
AsListed(handler) == [handler EXCEPT !.backend = IF @ = "port" /\ handler.kind \in Web THEN "url" ELSE @]

\* parse_allow_funnel: without AllowFunnel, which the client may leave out when
\* no port is public, nothing is taken from either list.
Partitioned(m) == m.public # {} \/ ~slack.omits
ListedBy(m, public) ==
    LET belongs(port) == Partitioned(m) => (port \in m.public) = public IN
    {Mapping(p, AsListed(m.handler[p]), public) : p \in {q \in Here : m.handler[q] # Nowhere /\ belongs(q[1])}}

\* visible_service_mappings: by address, what is served before what is public.
\* The selection is a number in this order.
Table(s) == s.serve \cup s.funnel
Comes(a, b) ==
    LET at(m) == CHOOSE i \in DOMAIN Spots : Spots[i] = AddressOf(m) IN
    at(a) < at(b) \/ (at(a) = at(b) /\ ~a.public /\ b.public)
RowsPicked(s) == {m \in Table(s) : Cardinality({r \in Table(s) : Comes(r, m)}) = s.selected - 1}

-----------------------------------------------------------------------------
(* The command lines, and what the client makes of them *)

MappingCommand(m) ==
    [verb |-> IF m.public THEN "funnel" ELSE "serve", kind |-> m.kind, port |-> m.port,
     path |-> IF m.mount = RootMount THEN AnyMount ELSE m.mount, proxy |-> m.proxy, target |-> m.backend]

\* Mutant: as when a mapping is made, the root is not named.
OffCommand_Short(m) ==
    [verb |-> "serve", kind |-> m.kind, port |-> m.port, path |-> IF m.mount = RootMount THEN AnyMount ELSE m.mount,
     proxy |-> "none", target |-> "off"]

\* mapping_off_command: without a path it would take every mount of the port.
OffCommand(m) ==
    [verb |-> "serve", kind |-> m.kind, port |-> m.port, path |-> IF m.kind \in Web THEN m.mount ELSE AnyMount,
     proxy |-> "none", target |-> "off"]

\* mapping_unpublish_command: it is served again, without Funnel.
UnpublishCommand(m) == MappingCommand([m EXCEPT !.public = FALSE])

\* What tailscale serve and funnel do with the configuration; Funnel is held
\* for a port, and a port has one kind of listener.
Holds(c, a) == {p \in Here : p[1] = a.port /\ c.handler[p] # Nowhere}
TakenOff(c, a) == {p \in Holds(c, a) : c.handler[p].kind = a.kind /\ a.path \in {AnyMount, p[2]}}
ClientRefuses(c, a) ==
    IF a.target = "off" THEN TakenOff(c, a) = {} ELSE \E p \in Holds(c, a) : c.handler[p].kind # a.kind
Configured(c, a) ==
    IF a.target = "off"
    THEN LET left == [p \in Here |-> IF p \in TakenOff(c, a) THEN Nowhere ELSE c.handler[p]] IN
         [c EXCEPT !.handler = left, !.public = @ \cap PortsOf(left)]
    ELSE LET place == <<a.port, IF a.path = AnyMount THEN RootMount ELSE a.path>> IN
         [c EXCEPT !.handler[place] = [kind |-> a.kind, backend |-> a.target, proxy |-> a.proxy],
                   !.public = IF a.verb = "funnel" THEN @ \cup {a.port} ELSE @ \ {a.port}]
Emptied(c) == [c EXCEPT !.handler = [p \in Here |-> Nowhere], !.public = {}]

\* run_service_task, which command a request becomes.
CommandOf(q) ==
    CASE q.kind = "remove"    -> OffCommand(q.mapping)
      [] q.kind = "unpublish" -> UnpublishCommand(q.mapping)
      [] OTHER                -> MappingCommand(q.mapping)

OfMapping == {"serve", "funnel", "publish", "unpublish", "remove"}

-----------------------------------------------------------------------------
(* Asking *)

\* local_action_available.
CanAsk(s, kind) ==
    /\ Capability[kind] \in slack.caps
    /\ kind = "publish"   => \E m \in RowsPicked(s) : ~m.public /\ m.kind # "http"
    /\ kind = "unpublish" => \E m \in RowsPicked(s) : m.public

\* service_confirmation_text, the phrase that has to be typed.
Phrase(q) ==
    CASE q.kind \in {"funnel", "publish"} -> "PUBLIC"
      [] q.kind = "unpublish"             -> "UNPUBLISH"
      [] q.kind = "remove"                -> IF q.mapping.public THEN "REMOVE-PUBLIC" ELSE "REMOVE"
      [] q.kind = "serveReset"            -> "RESET"
      [] q.kind = "funnelReset"           -> "RESET-PUBLIC"
      [] q.kind = "unshare"               -> "UNSHARE"
      [] q.kind \in {"cert", "receive"} /\ q.over -> "OVERWRITE"
      [] OTHER                            -> "none"

Review(s, q) == [s EXCEPT !.open = [what |-> "review", request |-> q, phrase |-> Phrase(q)]]
Form(s, kind) == [s EXCEPT !.open = [what |-> "form", kind |-> kind]]

\* The target the selected device is, if the client offers it as one.
TargetPicked(s) == {s.device} \cap s.targets

\* open_service_action: a row that answers everything goes to the confirmation,
\* the others to a form.
MappingActions == {"serve", "funnel", "edit", "remove", "unpublish", "publish", "serveReset", "funnelReset"}
OpenedForMapping(kind, s) ==
    CASE kind \in {"remove", "unpublish"} -> {Review(s, [kind |-> kind, mapping |-> m]) : m \in RowsPicked(s)}
      [] kind = "publish" -> {Review(s, [kind |-> kind, mapping |-> [m EXCEPT !.public = TRUE]]) : m \in RowsPicked(s)}
      [] kind = "edit"    -> {Form(s, kind) : m \in RowsPicked(s)}
      [] kind \in {"serveReset", "funnelReset"} -> {Review(s, [kind |-> kind])}
      [] OTHER            -> {Form(s, kind)}
Opened(kind, s) ==
    CASE kind \in MappingActions -> OpenedForMapping(kind, s)
      [] kind = "unshare" -> {Review(s, [kind |-> kind, name |-> n]) : n \in s.shares}
      [] kind = "rename"  -> {Form(s, kind) : n \in s.shares}
      [] kind = "send"    -> {Form(s, kind) : t \in TargetPicked(s)}
      [] OTHER            -> {Form(s, kind)}

AskService(kind) ==
    /\ kind \in slack.kinds \ {"metrics"} /\ store.open = NothingOpen /\ CanAsk(store, kind)
    /\ Uses("asks")
    /\ store' \in Opened(kind, store)
    /\ UNCHANGED <<machine, order>>

\* parse_service_form and parse_mapping_form: the requests one form can become.
\* An edit is of the row selected now, and the target that of the device
\* selected now; a rename asks for a field its form has not.
FilledMappings(public) == {m \in {Mapping(t.place, t.handler, public) : t \in slack.typed} : ValidMapping(m)}
Leading(r, handler) == [r EXCEPT !.backend = handler.backend, !.proxy = handler.proxy]
EditedMappings(s) == {m \in {Leading(r, t.handler) : r \in RowsPicked(s), t \in slack.typed} : ValidMapping(m)}
MappingRequestsOf(s, form) ==
    CASE form.kind = "serve"  -> {[kind |-> "serve", edit |-> FALSE, mapping |-> m] : m \in FilledMappings(FALSE)}
      [] form.kind = "funnel" -> {[kind |-> "funnel", edit |-> FALSE, mapping |-> m] : m \in FilledMappings(TRUE)}
      [] form.kind = "edit"   ->
             {[kind |-> IF m.public THEN "funnel" ELSE "serve", edit |-> TRUE, mapping |-> m] : m \in EditedMappings(s)}
RequestsOf(s, form) ==
    CASE form.kind \in MappingActions -> MappingRequestsOf(s, form)
      [] form.kind = "send" -> {[kind |-> "send", target |-> t] : t \in TargetPicked(s)}
      [] form.kind = "receive" -> {[kind |-> "receive", over |-> o] : o \in BOOLEAN}
      [] form.kind = "share" -> {[kind |-> "share", name |-> n] : n \in {"docs", "music"} \ s.shares}
      [] form.kind = "cert" -> {q \in [kind : {"cert"}, over : BOOLEAN] : q.over <=> "file" \in machine.there}
      [] form.kind = "bug" -> {[kind |-> "bug"]}
      [] OTHER -> {}

AcceptServiceForm ==
    /\ store.open.what = "form"
    /\ \E q \in RequestsOf(store, store.open) : store' = Review(store, q)
    /\ UNCHANGED <<slack, machine, order>>

CloseService ==
    /\ store.open # NothingOpen
    /\ store' = [store EXCEPT !.open = NothingOpen]
    /\ UNCHANGED <<slack, machine, order>>

-----------------------------------------------------------------------------
(* Starting *)

\* service_mapping_is_current.
IsCurrent(s, m) == \E r \in IF m.public THEN s.funnel ELSE s.serve : SameIdentity(r, m) /\ r.backend = m.backend

BackendStands(m) == m.backend = "folder" => "folder" \in machine.there

\* revalidate_service_request.  A row that is published is not looked for again.
MappingStands(s, q) ==
    CASE q.kind \in {"serve", "funnel"} ->
             /\ q.edit => \E r \in IF q.kind = "funnel" THEN s.funnel ELSE s.serve : SameIdentity(r, q.mapping)
             /\ BackendStands(q.mapping)
      [] q.kind = "publish"   -> BackendStands(q.mapping)
      [] q.kind = "remove"    -> IsCurrent(s, q.mapping)
      [] q.kind = "unpublish" -> IsCurrent(s, q.mapping) /\ BackendStands(q.mapping)
Revalid(s, q) ==
    CASE q.kind \in OfMapping -> MappingStands(s, q)
      [] q.kind = "send"      -> q.target \in s.targets /\ "folder" \in machine.there
      [] q.kind = "receive"   -> "folder" \in machine.there
      [] q.kind = "share"     -> q.name \notin s.shares /\ "folder" \in machine.there
      [] q.kind = "unshare"   -> q.name \in s.shares
      [] q.kind = "cert"      -> s.domains = "Ready"
      [] OTHER                -> TRUE

\* ServiceActionRequest::conflict_key.
KeyOf(q) ==
    CASE q.kind \in {"serve", "serveReset"} -> {<<"serve">>}
      [] q.kind \in {"funnel", "publish", "unpublish", "funnelReset"} -> {<<"funnel">>}
      [] q.kind = "remove" -> {<<IF q.mapping.public THEN "funnel" ELSE "serve">>}
      [] q.kind = "send" -> {<<"target", q.target>>}
      [] q.kind \in {"share", "unshare"} -> {<<"drive">>}
      [] q.kind \in {"cert", "receive"} -> {<<q.kind>>}
      [] OTHER -> {}

\* start_service_request, from a reducer with nothing open.
StartedWith(s, q, phrase) ==
    LET free == {n \in Orders : order[n] = NoOrder}
        n == CHOOSE m \in free : TRUE
        held == {l.key : l \in s.locks} IN
    IF CanAsk(s, q.kind) /\ Revalid(s, q) /\ KeyOf(q) \cap held = {} /\ free # {}
    THEN /\ store' = [s EXCEPT !.locks = @ \cup {[key |-> k, task |-> n] : k \in KeyOf(q)},
                               !.metrics = IF q.kind = "metrics" THEN "Loading" ELSE @,
                               !.report = IF q.kind = "bug" THEN "Loading" ELSE @]
         /\ order' = [order EXCEPT ![n] = [step |-> "command", request |-> q, phrase |-> phrase, verdict |-> "none",
                                           found |-> machine.there,
                                           before |-> machine, after |-> machine, read |-> machine]]
    ELSE store' = s /\ UNCHANGED order

AskMetrics ==
    /\ "metrics" \in slack.kinds /\ store.open = NothingOpen /\ Uses("asks")
    /\ StartedWith(store, [kind |-> "metrics"], "none")
    /\ UNCHANGED machine

\* accept_confirmation, the phrase typed.  A file that is there by now is put
\* to the user again.
Closing == [store EXCEPT !.open = NothingOpen]

\* Mutant: the files are looked at when the form is read, and not again.
AskedAgain_Never(q) == FALSE
AskedAgain(q) == q.kind = "cert" /\ ~q.over /\ "file" \in machine.there

AcceptService ==
    /\ store.open.what = "review"
    /\ LET q == store.open.request IN
       IF AskedAgain(q) THEN store' = Review(Closing, [q EXCEPT !.over = TRUE]) /\ UNCHANGED order
       ELSE StartedWith(Closing, q, store.open.phrase)
    /\ UNCHANGED <<slack, machine>>

-----------------------------------------------------------------------------
(* The task *)

Advances(n, step, verdict) == order' = [order EXCEPT ![n].step = step, ![n].verdict = verdict]
Doing(n, step) == order[n] # NoOrder /\ order[n].step = step

\* The client's answer to a command that it takes.
Effect(c, q) ==
    CASE q.kind \in OfMapping -> Configured(c, CommandOf(q))
      [] q.kind \in {"serveReset", "funnelReset"} -> Emptied(c)
      [] q.kind = "share"   -> [c EXCEPT !.shares = @ \cup {q.name}]
      [] q.kind = "unshare" -> [c EXCEPT !.shares = @ \ {q.name}]
      [] q.kind = "cert"    -> [c EXCEPT !.there = @ \cup {"file"}]
      [] OTHER              -> c

\* What the worker finds by itself before it runs anything, and what the client refuses.
WorkerRefuses(q) == q.kind \in {"send", "receive", "share"} /\ "folder" \notin machine.there
ClientWillNot(q) ==
    \/ q.kind \in OfMapping /\ ClientRefuses(machine, CommandOf(q))
    \/ q.kind = "unshare" /\ q.name \notin machine.shares
CannotRun(q) == WorkerRefuses(q) \/ ClientWillNot(q)

\* What follows a command that succeeded: a list is read back, the files of a
\* certificate are looked at, of a transfer or a report nothing can be said.
Follows(q) ==
    CASE q.kind \in {"send", "receive", "metrics", "bug"} -> [step |-> "sent", verdict |-> "done"]
      [] q.kind = "cert" -> [step |-> "sent", verdict |-> "verified"]
      [] OTHER -> [step |-> "verify", verdict |-> "done"]

\* run_service_command and run_transfer_command.  A command that fails, is
\* cancelled or times out may have taken effect.
RunServiceCommand(n) ==
    /\ Doing(n, "command")
    /\ LET q == order[n].request IN
       \/ /\ ~CannotRun(q)
          /\ machine' = Effect(machine, q)
          /\ order' = [order EXCEPT ![n].step = Follows(q).step, ![n].verdict = Follows(q).verdict,
                                    ![n].before = machine, ![n].after = machine']
          /\ UNCHANGED slack
       \/ CannotRun(q) /\ Advances(n, "sent", "failed") /\ UNCHANGED <<slack, machine>>
       \/ /\ Uses("faults")
          /\ machine' \in {machine} \cup (IF CannotRun(q) THEN {} ELSE {Effect(machine, q)})
          /\ order' = [order EXCEPT ![n].step = "sent", ![n].verdict = "failed", ![n].before = machine, ![n].after = machine']
    /\ UNCHANGED store

\* The list a request is verified in.
ListOf(q) == CASE q.kind \in {"serve", "serveReset"} -> "serve"
               [] q.kind \in {"share", "unshare"}    -> "shares"
               [] q.kind = "remove" -> IF q.mapping.public THEN "funnel" ELSE "serve"
               [] OTHER -> "funnel"
ListIn(m, list) == CASE list = "serve"  -> ListedBy(m, FALSE)
                     [] list = "funnel" -> ListedBy(m, TRUE)
                     [] OTHER           -> m.shares

\* verify_serve_mapping, verify_funnel_mapping, verify_mapping_removed, the resets and the shares.
BearsOut(q, rows) ==
    CASE q.kind \in {"serve", "funnel", "publish"} ->
             \E r \in rows : SameIdentity(r, q.mapping) /\ r.backend = q.mapping.backend /\ r.proxy = q.mapping.proxy
      [] q.kind \in {"remove", "unpublish"} -> \A r \in rows : ~SameIdentity(r, q.mapping)
      [] q.kind \in {"serveReset", "funnelReset"} -> rows = {}
      [] q.kind = "share"   -> q.name \in rows
      [] q.kind = "unshare" -> q.name \notin rows

ReadBack(n) ==
    /\ Doing(n, "verify")
    /\ LET q == order[n].request  rows == ListIn(machine, ListOf(q)) IN
       \/ /\ order' = [order EXCEPT ![n].step = IF q.kind = "unpublish" THEN "served?" ELSE "sent",
                                    ![n].verdict = IF BearsOut(q, rows) THEN "verified" ELSE "unverified",
                                    ![n].read = machine]
          /\ UNCHANGED slack
       \/ Uses("faults") /\ Advances(n, "sent", "failed")
    /\ UNCHANGED <<machine, store>>

\* verify_funnel_unpublish reads a second list.
ReadServed(n) ==
    /\ Doing(n, "served?")
    /\ \/ Advances(n, "sent", IF \E r \in ListedBy(machine, FALSE) : SameIdentity(r, order[n].request.mapping)
                           THEN order[n].verdict ELSE "unverified") /\ UNCHANGED slack
       \/ Uses("faults") /\ Advances(n, "sent", "failed")
    /\ UNCHANGED <<machine, store>>

\* What a section that was read on request becomes.
SectionAfter(old, verdict) == IF verdict # "failed" THEN "Ready" ELSE IF old = "Loading" THEN "Failed" ELSE old
Released(q, n, verdict) ==
    [store EXCEPT !.locks = {l \in @ : l.task # n},
                  !.metrics = IF q.kind = "metrics" THEN SectionAfter(@, verdict) ELSE @,
                  !.report = IF q.kind = "bug" THEN SectionAfter(@, verdict) ELSE @]

\* ServicesEvent::TaskFinished: the lock is released, what was read is shown.
FinishOrder(n) ==
    /\ Doing(n, "sent")
    /\ LET q == order[n].request IN
       store' = IF order[n].verdict \in {"verified", "unverified"} /\ q.kind # "cert"
                THEN [Released(q, n, order[n].verdict) EXCEPT ![ListOf(q)] = ListIn(order[n].read, ListOf(q))]
                ELSE Released(q, n, order[n].verdict)
    /\ Advances(n, "ended", order[n].verdict)
    /\ UNCHANGED <<slack, machine>>

-----------------------------------------------------------------------------
(* What happens meanwhile *)

\* ServicesEvent::RefreshFinished; the domains are loading from its start on.
ListsArrive ==
    /\ store' = [store EXCEPT !.serve = IF "serve" \in slack.caps THEN ListedBy(machine, FALSE) ELSE {},
                              !.funnel = IF "funnel" \in slack.caps THEN ListedBy(machine, TRUE) ELSE {},
                              !.shares = machine.shares, !.targets = machine.targets, !.domains = "Loading"]
    /\ store' # store
    /\ UNCHANGED <<slack, machine, order>>

\* LocalEvent::StatusSucceeded gives the domains, and begins a refresh of the
\* services - while the command is known to be there.
StatusArrives ==
    /\ "cert" \in slack.kinds /\ store.domains = "Loading" /\ ~store.cli
    /\ store' = [store EXCEPT !.domains = "Ready"]
    /\ UNCHANGED <<slack, machine, order>>
CommandMissed ==
    /\ "cert" \in slack.kinds /\ store.cli /\ Uses("moves")
    /\ store' = [store EXCEPT !.cli = FALSE]
    /\ UNCHANGED <<machine, order>>

\* move_service_selection, and the row of the devices.
SelectRow ==
    /\ Uses("moves") /\ store.open = NothingOpen
    /\ store' \in {[store EXCEPT !.selected = i] : i \in 1..Cardinality(Table(store))}
    /\ UNCHANGED <<machine, order>>
DeviceMoves ==
    /\ "send" \in slack.kinds /\ Uses("moves")
    /\ store' = [store EXCEPT !.device = 3 - @]
    /\ UNCHANGED <<machine, order>>

\* Other hands: another client of the daemon, another program in the directory.
OthersChange ==
    /\ Uses("foreign")
    /\ \/ /\ "serve" \in slack.caps
          /\ \/ \E p \in Here, h \in {t.handler : t \in slack.typed} \cup {Nowhere} :
                   /\ \A q \in Here : q[1] = p[1] /\ q # p => machine.handler[q].kind \in {"none", h.kind}
                   /\ h = Nowhere \/ ServableAt(h, p)
                   /\ LET then == [machine.handler EXCEPT ![p] = h] IN
                      machine' = [machine EXCEPT !.handler = then, !.public = @ \cap PortsOf(then)]
             \/ \E port \in {p[1] : p \in {q \in Here : machine.handler[q].kind \notin {"none", "http"}}} :
                   machine' = [machine EXCEPT !.public = IF port \in @ THEN @ \ {port} ELSE @ \cup {port}]
       \/ \E f \in {"file", "folder"} : machine' = [machine EXCEPT !.there = IF f \in @ THEN @ \ {f} ELSE @ \cup {f}]
       \/ \E t \in machine.targets : "taildrop" \in slack.caps /\ machine' = [machine EXCEPT !.targets = @ \ {t}]
       \/ "drive" \in slack.caps /\ machine' = [machine EXCEPT !.shares = IF "docs" \in @ THEN @ \ {"docs"} ELSE @ \cup {"docs"}]
    /\ UNCHANGED <<store, order>>

RequestsNext ==
    \/ \E k \in DOMAIN Capability : AskService(k)
    \/ AskMetrics \/ AcceptServiceForm \/ CloseService \/ AcceptService
    \/ \E n \in Orders : RunServiceCommand(n) \/ ReadBack(n) \/ ReadServed(n) \/ FinishOrder(n)
    \/ ListsArrive \/ StatusArrives \/ CommandMissed \/ SelectRow \/ DeviceMoves \/ OthersChange

RequestsSpec == RequestsInit /\ [][RequestsNext]_requestVars

-----------------------------------------------------------------------------
(* Types *)

ShareNames == {"docs", "music"}
Targets    == {1, 2}
Mappings   == {m \in [port : HerePorts, mount : {p[2] : p \in Here}, kind : Listeners, backend : BackendKinds,
                      proxy : Proxies, public : BOOLEAN] : AddressOf(m) \in Here /\ ServableAt(m, AddressOf(m))}
MappingsOf(public) == {m \in Mappings : m.public = public}

Requests ==
    [kind : {"serve"}, edit : BOOLEAN, mapping : MappingsOf(FALSE)] \cup [kind : {"funnel"}, edit : BOOLEAN, mapping : MappingsOf(TRUE)]
    \cup [kind : {"publish"}, mapping : MappingsOf(TRUE)] \cup [kind : {"remove"}, mapping : Mappings]
    \cup [kind : {"unpublish"}, mapping : Mappings]
    \cup [kind : {"serveReset", "funnelReset", "bug", "metrics"}] \cup [kind : {"send"}, target : Targets]
    \cup [kind : {"share", "unshare"}, name : ShareNames] \cup [kind : {"cert", "receive"}, over : BOOLEAN]
Phrases == {"PUBLIC", "UNPUBLISH", "REMOVE-PUBLIC", "REMOVE", "RESET", "RESET-PUBLIC", "UNSHARE", "OVERWRITE", "none"}
Reviews == {r \in [what : {"review"}, request : Requests, phrase : Phrases] : r.phrase = Phrase(r.request)}
Forms   == [what : {"form"}, kind : {"serve", "funnel", "edit", "send", "receive", "share", "rename", "cert", "bug"}]

Clients == {m \in [handler : [Here -> Handlers \cup {Nowhere}], public : SUBSET HerePorts, shares : SUBSET ShareNames,
                    targets : SUBSET Targets, there : SUBSET {"file", "folder"}] :
                 /\ \A p \in Here : m.handler[p] = Nowhere \/ ServableAt(m.handler[p], p)
                 /\ m.public \subseteq PortsOf(m.handler)}
OrderTasks == [step : {"command", "verify", "served?", "sent", "ended"}, request : Requests, phrase : Phrases,
          verdict : {"none", "done", "failed", "verified", "unverified"}, found : SUBSET {"file", "folder"},
          before : Clients, after : Clients, read : Clients]

Stores ==
    [serve : SUBSET MappingsOf(FALSE), funnel : SUBSET MappingsOf(TRUE), shares : SUBSET ShareNames,
     targets : SUBSET Targets, domains : {"Loading", "Ready"}, cli : BOOLEAN,
     metrics : {"Idle", "Loading", "Ready", "Failed"}, report : {"Idle", "Loading", "Ready", "Failed"},
     selected : Nat, device : Targets, open : {NothingOpen} \cup Reviews \cup Forms,
     locks : SUBSET [key : UNION {KeyOf(q) : q \in Requests}, task : Orders]]

\* The typed state of the requests.
RequestsTypeOK ==
    /\ slack \in Slacks
    /\ machine \in Clients
    /\ store \in Stores
    /\ order \in [Orders -> OrderTasks \cup {NoOrder}]

-----------------------------------------------------------------------------
(* Properties *)

\* A command changes what was confirmed and nothing beside it: no other
\* address, the exposure of no other port, no other share.  A port becomes
\* public by a request for which PUBLIC was typed, and a removal leaves it so
\* while something is served on it.
StaysWithin(o) ==
    LET q == o.request  b == o.before  a == o.after
        mapped == q.kind \in OfMapping
        reset == q.kind \in {"serveReset", "funnelReset"} IN
    /\ \A p \in Here : a.handler[p] # b.handler[p] => reset \/ (mapped /\ p = AddressOf(q.mapping))
    /\ \A port \in a.public \ b.public : mapped /\ port = q.mapping.port /\ o.phrase = "PUBLIC"
    /\ \A port \in b.public \ a.public : reset \/ (mapped /\ port = q.mapping.port)
    /\ q.kind = "remove" => \A port \in b.public \ a.public : \A p \in Here : p[1] = port => a.handler[p] = Nowhere
    /\ (a.shares \ b.shares) \cup (b.shares \ a.shares) \subseteq
           IF q.kind \in {"share", "unshare"} THEN {q.name} ELSE {}

\* What a task is said to have verified was so when it was read.  Of Funnel it
\* can be said only of a client that lists its public ports.
VerifiedWasSo(o) ==
    LET q == o.request  r == o.read  m == q.mapping  here == r.handler[AddressOf(m)] IN
    CASE q.kind \in {"serve", "funnel", "publish"} ->
             /\ here.kind = m.kind /\ here.proxy = m.proxy /\ AsListed(here).backend = m.backend
             /\ slack.omits \/ (m.port \in r.public) = m.public
      [] q.kind = "remove" -> slack.omits \/ here.kind # m.kind \/ (m.port \in r.public) # m.public
      [] q.kind = "unpublish" -> here.kind = m.kind => m.port \notin r.public
      [] q.kind = "funnelReset" -> \A p \in Here : p[1] \in r.public => r.handler[p] = Nowhere
      [] q.kind = "serveReset" -> \A p \in Here : r.handler[p] = Nowhere \/ p[1] \in r.public
      [] q.kind = "share" -> q.name \in r.shares
      [] q.kind = "unshare" -> q.name \notin r.shares
      [] OTHER -> TRUE

\* A service task does what its confirmation said: it keeps to the address, the
\* port and the share that were confirmed (app/service_reducer.rs
\* open_service_confirmation, local/services.rs mapping_off_command), it is
\* said to be verified only when that was read (runtime.rs verify_*), it
\* writes over a file that was there only if OVERWRITE was typed for it
\* (admin_reducer.rs accept_confirmation), and a section loads only while
\* something reads it.
RequestsDoAsConfirmed ==
    /\ \A n \in Orders : order[n] # NoOrder =>
          /\ StaysWithin(order[n])
          /\ order[n].verdict = "verified" /\ order[n].request.kind # "cert" => VerifiedWasSo(order[n])
          /\ order[n].request.kind = "cert" /\ "file" \in order[n].found => order[n].phrase = "OVERWRITE"
    /\ store.metrics = "Loading" => \E n \in Orders : order[n] # NoOrder /\ order[n].request.kind = "metrics" /\ order[n].step # "ended"

=============================================================================
