----------------------------- MODULE MCSession -----------------------------
(***************************************************************************)
(* Instances of the components that keep what Tale knows up to date.  A    *)
(* behaviour is of one part, the others rest in an initial state: they     *)
(* share no state that the modules do not already hold.                    *)
(***************************************************************************)
EXTENDS AdminReads, LocalObserver, LocalServices, OneTimeSecrets, PrivateFiles,
        DeviceView, AdminChanges, ActionDialogs, SavedViews, ServiceRequests, OperatorRequests, OperationalRequests,
        ActivityLogs, TLC

CONSTANTS p1, p2, c1, c2

VARIABLE part   \* the component this behaviour is of

Reads(user, kinds, writes, verdicts, tailnets) ==
    [acts |-> user, kinds |-> kinds, writes |-> writes, probes |-> verdicts, tailnets |-> tailnets]

ReadScenarios ==
    {Reads(3, {"detail", "write"}, 1, 0, {None}),
     Reads(2, {"detail", "write", "user"}, 1, 0, {None}),
     Reads(2, {"view", "refusal"}, 0, 0, {None}),
     Reads(2, {"detail", "refusal"}, 0, 0, {None}),
     Reads(3, {"switch"}, 0, 1, {None}),
     Reads(2, {"switch", "write"}, 1, 1, {None}),
     Reads(2, {"switch"}, 1, 1, Profiles \cup {None}),
     Reads(2, {"refresh", "detail"}, 0, 0, {None})}

Local(changes, ends, faults, refreshes, mutations, reconciles, account) ==
    [changes |-> changes, ends |-> ends, faults |-> faults, refreshes |-> refreshes,
     mutations |-> mutations, reconciles |-> reconciles, account |-> account]

LocalScenarios ==
    {Local(2, 1, 0, 0, 0, 0, FALSE), Local(1, 0, 0, 1, 0, 0, FALSE), Local(1, 1, 1, 0, 0, 0, FALSE), Local(1, 0, 1, 0, 0, 1, FALSE),
     Local(0, 1, 0, 0, 1, 0, FALSE), Local(0, 0, 1, 0, 1, 0, TRUE), Local(0, 0, 0, 0, 1, 0, FALSE)}

Services(number, asks, reread, faults, others, accounts, published, silent) ==
    [changes |-> number, kinds |-> asks, reads |-> reread, faults |-> faults, foreign |-> others,
     switches |-> accounts, public |-> published, omits |-> silent]

ServiceScenarios ==
    {Services(2, {"serve", "remove"}, 0, 0, 0, 0, {}, TRUE), Services(2, {"share", "serve"}, 0, 0, 0, 0, {}, FALSE),
     Services(1, {"funnel", "unpublish", "reset", "share", "unshare"}, 0, 1, 0, 0, Ports, FALSE),
     Services(1, {"remove"}, 1, 0, 1, 0, Ports, TRUE), Services(1, {"unpublish"}, 0, 0, 0, 1, Ports, TRUE)}

Secrets(sorts, relists, faults, switches) ==
    [kinds |-> sorts, refreshes |-> relists, faults |-> faults, connects |-> switches]

SecretScenarios ==
    {Secrets({"key", "rotate", "create"}, 1, 1, 1), Secrets({"revoke", "key"}, 1, 1, 1),
     Secrets({"edit", "test", "rotate"}, 1, 1, 0), Secrets({"revoke"}, 0, 1, 1)}

Op(op, name, yes) == [op |-> op, name |-> name, yes |-> yes]
FileWork(first, second, at, faults, crashes, apart) ==
    [script |-> <<first, second>>, present |-> at, faults |-> faults, deaths |-> crashes, alone |-> apart]

FileScenarios ==
    {FileWork(<<Op("add", 1, FALSE)>>, <<Op("add", 1, FALSE), Op("remove", 1, TRUE)>>, {2}, 2, 1, TRUE),
     FileWork(<<Op("add", 1, FALSE), Op("drop", 1, FALSE), Op("remove", 1, TRUE)>>,
              <<Op("export", 2, FALSE), Op("export", 2, TRUE)>>, {1, 2}, 2, 1, TRUE),
     FileWork(<<Op("create", 1, FALSE), Op("replace", 2, FALSE), Op("rename", 1, FALSE), Op("discard", 2, FALSE)>>, <<>>, {2}, 2, 1, TRUE),
     FileWork(<<Op("create", 1, FALSE), Op("rename", 1, FALSE), Op("discard", 2, FALSE)>>, <<>>, {}, 2, 1, TRUE),
     FileWork(<<Op("add", 1, FALSE)>>, <<Op("add", 2, FALSE), Op("remove", 1, TRUE)>>, {}, 0, 1, FALSE)}

Look(number, allowed, answers, beats, active) ==
    [acts |-> number, kinds |-> allowed, refreshes |-> answers, ticks |-> beats, profile |-> active,
     fleets |-> {<<2, 1>>, <<3, 1, 2>>, <<1, 3>>},
     fields |-> {[tagged |-> {1, 3}, compliant |-> {2}], [tagged |-> {2}, compliant |-> {1, 2, 3}]}]

ViewScenarios ==
    {Look(3, {"move", "sort", "filter"}, 2, 1, FALSE), Look(3, {"go", "filter", "move"}, 2, 0, FALSE),
     Look(3, {"go", "saved", "move"}, 1, 0, TRUE)}

Asked(which, others, start, number) ==
    [kind |-> which, there |-> [f \in ChangeFields |-> IF f \in start \cup {"present"} THEN Yes ELSE No],
     foreign |-> others, faults |-> 1, forms |-> number, cancels |-> 1]

ChangeScenarios ==
    {Asked(k, {ChangeKinds[k].field}, {}, 1) : k \in DOMAIN ChangeKinds \ {"DeviceRoutes", "DeviceRename", "DeviceExpireNow"}} \cup
    {Asked("DeviceRename", {"hostname"}, {}, 2), Asked("DeviceRename", {"hostname"}, {"hostname"}, 1),
     Asked("DeviceTags", {"present", "owner"}, {}, 2),
     Asked("DeviceExpireNow", {"keyExpiryDisabled"}, {}, 1), Asked("UserRole", {"present"}, {}, 1),
     Asked("DeviceRoutes", {"enabledRoutes"}, {"advertisedRoutes"}, 1),
     [Asked("DeviceRoutes", {"advertisedRoutes", "present"}, {"advertisedRoutes"}, 1)
          EXCEPT !.there["enabledRoutes"] = Theirs]}

Dialogs(number, sorts, renewed, moves, again, gone, barred) ==
    [keys |-> number, kinds |-> sorts, lists |-> renewed, switches |-> moves, refreshes |-> again, losses |-> gone,
     readOnly |-> barred]

DialogScenarios ==
    {Dialogs(6, {"change", "webhook"}, {}, 1, 0, 0, {}), Dialogs(5, {"change", "webhook"}, {}, 1, 0, 0, {p2}),
     Dialogs(5, {"keyring", "delete"}, {<<2>>}, 2, 0, 0, {}), Dialogs(6, {"export", "change"}, {}, 0, 0, 0, {}),
     Dialogs(6, {"disconnect"}, {}, 0, 1, 1, {}), Dialogs(5, {"ssh", "unserve"}, {<<2>>, <<>>}, 0, 0, 1, {})}

LineToken(negative, which, how, values, limit) ==
    [negated |-> negative, field |-> which, operator |-> how, values |-> values, bound |-> limit]
FilterLines ==
    {<<LineToken(FALSE, "none", "match", <<<<1>>>>, 0)>>, <<LineToken(FALSE, "owner", "match", <<<<1>>>>, 0)>>,
     <<LineToken(TRUE, "owner", "match", <<<<1>>>>, 0)>>, <<LineToken(FALSE, "online", "match", <<True>>, 0)>>,
     <<LineToken(FALSE, "approval", "match", <<Approved, Pending>>, 0)>>, <<LineToken(FALSE, "owner", "starts", <<<<1>>>>, 0)>>,
     <<LineToken(FALSE, "lastSeen", ">", <<>>, 0), LineToken(FALSE, "approval", "match", <<Pending>>, 0)>>,
     <<LineToken(FALSE, "lastSeen", ">=", <<>>, 0)>>, <<LineToken(FALSE, "property", "match", <<Ssh>>, 0)>>,
     <<LineToken(TRUE, "name", "match", <<<<1>>>>, 0)>>}
HandClauses(how) == <<[field |-> "owner", values |-> <<<<1>>>>, bound |-> 0, operator |-> how]>>
HandView(how) == [title |-> 1, sort |-> "down", was |-> Reopened(HandClauses(how)), filters |-> HandClauses(how)]
Shelf(number, typed, bad, found) == [acts |-> number, lines |-> typed, faults |-> bad, written |-> found]

ShelfScenarios ==
    {Shelf(5, FilterLines, 1, <<>>), Shelf(3, {}, 0, <<HandView("contains")>>), Shelf(3, {}, 0, <<HandView("starts_with")>>),
     Shelf(3, {}, 0, <<[HandView("equals") EXCEPT !.sort = "columnless"]>>)}

AtPort(port, mount, handler) == [place |-> <<port, mount>>, handler |-> handler]
Served(sort, target, header) == [kind |-> sort, backend |-> target, proxy |-> header]
PlaceOrder == <<<<1, "/">>, <<1, "/a">>, <<2, "/">>>>
ServedAt(typed) == [place \in {t.place : t \in typed} |-> (CHOOSE t \in typed : t.place = place).handler]
Asks(offered, wanted, number, steps, bad, others, silent, from, published, lines) ==
    [caps |-> offered, kinds |-> wanted, asks |-> number, moves |-> steps, faults |-> bad, foreign |-> others,
     omits |-> silent, start |-> ServedAt(from), public |-> published, typed |-> lines]

Mapped2 == {AtPort(1, "/", Served("https", "url", "none")), AtPort(1, "/a", Served("https", "port", "none"))}
MappedTcp == {AtPort(1, "/a", Served("https", "url", "none")), AtPort(2, "/", Served("tcp", "port", "1"))}
OnRoot(target) == {AtPort(1, "/", Served("https", target, "none"))}
RequestScenarios ==
    {Asks({"serve", "funnel"}, {"serve", "funnel"}, 2, 0, 0, 0, TRUE, Mapped2, {},
          {AtPort(1, "/a", Served("https", "folder", "none")), AtPort(2, "/", Served("tcp", "port", "1")),
           AtPort(2, "/", Served("http", "url", "none"))}),
     Asks({"serve", "funnel"}, {"edit", "remove", "unpublish", "publish"}, 2, 1, 0, 0, TRUE, Mapped2, {1}, OnRoot("url")),
     Asks({"serve", "funnel"}, {"remove", "unpublish", "publish"}, 1, 1, 1, 1, FALSE, Mapped2, {1}, OnRoot("folder")),
     Asks({"serve", "funnel"}, {"edit", "remove"}, 2, 1, 1, 0, FALSE, MappedTcp, {},
          OnRoot("folder") \cup {AtPort(1, "/", Served("tcp", "url", "2"))}),
     Asks({"serve", "funnel"}, {"serveReset", "funnelReset", "serve"}, 2, 0, 0, 0, FALSE, Mapped2, {1}, OnRoot("folder")),
     Asks({"drive"}, {"share", "unshare", "rename"}, 2, 0, 1, 1, FALSE, {}, {}, {}),
     Asks({"taildrop"}, {"send", "receive"}, 1, 1, 1, 1, FALSE, {}, {}, {}),
     Asks({"cert", "bug"}, {"cert", "bug"}, 2, 1, 0, 1, FALSE, {}, {}, {}),
     Asks({"metrics"}, {"metrics"}, 2, 0, 1, 0, FALSE, {}, {}, {})}

NodePrefs(exit, lan, routes) ==
    [a \in LocalAccounts \cup {NoAccount} |-> [dns |-> "yes", name |-> "x", exit |-> exit, lan |-> lan, routes |-> routes,
                                          connector |-> "no", port |-> IF a = "a1" THEN "1" ELSE "off"]]
Node(allowed, number, begin, input, others, relearned, held) ==
    [kinds |-> allowed, asks |-> number, prefs |-> begin, typed |-> input, foreign |-> others, faults |-> 1, cancels |-> 1,
     reads |-> relearned, silent |-> {}, running |-> "yes", policies |-> held]

OperatorScenarios ==
    {[Node({"preferences"}, 1, NodePrefs("none", "no", {}), {[dns |-> "no"], [name |-> "y"]}, 1, 2, {}) EXCEPT !.silent = {"name"}],
     Node({"preferences"}, 1, NodePrefs("none", "no", {}), {[dns |-> "no"], [dns |-> "yes", name |-> "y"]}, 1, 3, {"dns"}),
     Node({"exit"}, 1, NodePrefs("d1", "yes", {}),
          {[exit |-> "none", lan |-> "no"], [lan |-> "no"], [exit |-> "auto:any"]}, 1, 3, {"noOverride"}),
     Node({"exit"}, 1, NodePrefs("auto:any", "no", {}), {[exit |-> "none"], [exit |-> "d1"]}, 2, 2, {}),
     Node({"advertise"}, 1, NodePrefs("none", "no", {"net"}),
          {[routes |-> {"net", "default"}, offer |-> "yes"], [connector |-> "yes", risk |-> "yes"], [port |-> "off"], [routes |-> {}]}, 1, 2, {"offer"}),
     Node({"connect", "disconnect", "reload"}, 2, NodePrefs("none", "no", {}), {}, 1, 1, {"alwaysOn"}),
     Node({"switch", "advertise"}, 2, NodePrefs("none", "no", {"net"}), {[routes |-> {}]}, 0, 3, {}),
     Node({"remove", "logout", "login"}, 1, NodePrefs("none", "no", {}), {}, 1, 2, {})}

Hook(number, address, names) == [id |-> number, url |-> address, provider |-> "slack", subscriptions |-> names]
StreamTo(target, given) ==
    [destination |-> target, secret |-> "old",
     fields |-> [key \in StreamKeys |-> IF key \in DOMAIN given THEN given[key] ELSE ""]]
Tailnet(first, second) ==
    [hooks |-> <<Hook(1, "u1", {"created", "future"}), Hook(2, "u2", {})>>, next |-> 3, logging |-> FALSE,
     streams |-> [log \in LogTypes |-> IF log = "network" THEN first ELSE second]]
Operation(wanted, input, number, renewals, bad, others, from) ==
    [kinds |-> wanted, fills |-> input, asks |-> number, refreshes |-> renewals, faults |-> bad, hands |-> others, start |-> from]

\* A name or a field may read anything.
AnyText == STRING

Splunk == StreamTo("splunk", [url |-> "u1", user |-> "w", compression |-> "gzip"])
ToBucket == ("s3-bucket" :> "b") @@ ("s3-region" :> "r") @@ ("s3-auth" :> "rolearn") @@ ("s3-role" :> "o")
OperationScenarios ==
    {Operation({"edit"}, {[events |-> {"policy"}], [categories |-> {"created"}]}, 2, 1, 2, 1, Tailnet(NoStream, NoStream)),
     Operation({"create"}, {[url |-> "unsafe"], [url |-> "u1", provider |-> "slack", events |-> {"created", "future"}]}, 1, 0, 1, 1,
               Tailnet(NoStream, NoStream)),
     Operation({"replace"}, {[destination |-> "s3", secret |-> "new"], [period |-> "often"], [period |-> "2000"], ToBucket}, 1, 0, 1, 0,
               Tailnet(Splunk, NoStream)),
     Operation({"replace"}, {[secret |-> "new", period |-> "5"], [user |-> "w"]}, 1, 1, 1, 1, Tailnet(Splunk, NoStream)),
     Operation({"replace"}, {[secret |-> "new"], [destination |-> "gcs", secret |-> "new"], ("gcs-bucket" :> "b")}, 1, 0, 1, 1,
               Tailnet(NoStream, StreamTo("vector", [url |-> "u1"]))),
     Operation({"delete", "edit"}, {}, 2, 1, 2, 1, Tailnet(NoStream, NoStream)),
     Operation({"rotate", "test"}, {}, 1, 1, 2, 1, Tailnet(NoStream, NoStream)),
     Operation({"logging", "unstream"}, {[enabled |-> TRUE]}, 2, 0, 2, 1, Tailnet(Splunk, Splunk))}

Connection(name, at, sent, received) == [proto |-> name, port |-> at, tx |-> sent, rx |-> received]
Message(reporter, when, to, upward, straight) ==
    [node |-> reporter, source |-> reporter, destinations |-> to, logged |-> when, whole |-> reporter # "broken",
     traffic |-> [c \in {"virtual", "subnet", "exit", "physical"} |->
                     CASE c = "virtual" -> upward [] c = "exit" -> straight [] OTHER -> <<>>]]
OneFlow == <<Connection("tcp", 22, 1, 2), Connection("udp", 53, 3, 1), Connection("tcp", 443, 2, 2)>>
Recent == <<Message("d1", 9999, {"d2"}, OneFlow, <<Connection("tcp", 22, 4, 4)>>),
            Message("d2", 10000, {}, <<Connection("tcp", 22, 3, 0)>>, <<>>)>>
Earlier == <<Message("d1", 9980, {"d2", "d3"}, <<Connection("udp", 53, 7, 0), Connection("icmp", 0, 7, 7)>>, <<>>),
             Message("d1", 9990, {"d2"}, <<Connection("udp", 53, 1, 0)>>, <<>>)>>
Edit(when, choices) == [window |-> when, filter |-> choices]
Happened(when, who, did) == [at |-> when, actor |-> who, action |-> did, target |-> "device"]
Happenings == {Happened(9999, "u1", "create"), Happened(9990, "u2", "delete"), Happened(9900, "u1", "delete"), Happened(9300, "u1", "create")}
Logs(number, which, passing, bad, input, sieves, traffic) ==
    [acts |-> number, kinds |-> which, hours |-> passing, faults |-> bad, typed |-> input, sieves |-> sieves,
     flows |-> [t \in Tenants |-> IF t = First THEN traffic ELSE <<>>],
     events |-> [t \in Tenants |-> IF t = First THEN Happenings ELSE {Happened(9999, "u3", "create")}]]
Sieves == {[AllEvents EXCEPT !.from = {9900}, !.to = {9990}], [AllEvents EXCEPT !.actor = {"u1"}, !.from = {9999}, !.to = {9900}],
           [AllEvents EXCEPT !.action = {"delete"}, !.target = {"user"}]}

LogScenarios ==
    {Logs(4, {"window", "tally", "export"}, 1, 1, {Edit(<<>>, [reporting |-> {}]), Edit(<<9976, 10000>>, [least |-> {4}]),
                                                    Edit(<<9976, 9990>>, [protocol |-> {"udp"}])}, Sieves, Earlier \o Recent),
     Logs(4, {"window", "tally", "switch", "refresh"}, 1, 0, {Edit(<<>>, [class |-> {"exit"}]), Edit(<<9990, 10000>>, [port |-> {22}, class |-> {}])},
          Sieves, Earlier \o Recent),
     Logs(3, {"window", "export"}, 0, 0, {Edit(<<9990, 10000>>, [destination |-> {"d2"}]), Edit(<<9990, 10000>>, [source |-> {"d2"}]),
          Edit(<<10000, 9990>>, [class |-> {}]), Edit(<<9999, 10001>>, [class |-> {}]), Edit(<<9970, 10000>>, [class |-> {}]), Edit(<<9000, 9001>>, [class |-> {}])}, Sieves,
          Recent \o <<Message("broken", 9995, {}, <<>>, <<>>)>>),
     Logs(4, {"days", "filter", "export"}, 1, 1, {}, Sieves, <<>>),
     Logs(4, {"days", "switch", "refresh", "export"}, 1, 1, {}, Sieves, <<>>)}

Resting(scenarios) == CHOOSE s \in scenarios : TRUE

sessionVars == <<part, readsVars, localVars, serviceVars, secretVars, fileVars, viewVars, changeVars, dialogVars, shelfVars, requestVars, operatorVars, operationVars, logVars>>

SessionInit ==
    /\ part \in {"reads", "local", "services", "secrets", "files", "view", "change", "dialog", "shelf", "request", "operator", "operations", "logs"}
    /\ ReadsInit    /\ (part # "reads" => scope = Resting(ReadBounds))
    /\ LocalInit    /\ (part # "local" => left = Resting(LocalBounds))
    /\ ServicesInit /\ (part # "services" => allowance = Resting(ServiceBounds))
    /\ SecretsInit  /\ (part # "secrets" => permitted = Resting(SecretBounds))
    /\ FilesInit    /\ (part # "files" => budget = Resting(FileBounds))
    /\ ViewInit     /\ (part # "view" => leeway = Resting(ViewBounds))
    /\ LogsInit /\ (part # "logs" => spare = Resting(LogBounds))
    /\ OperationInit /\ (part # "operations" => quota = Resting(OperationBounds))
    /\ OperatorInit /\ (part # "operator" => stock = Resting(OperatorBounds))
    /\ RequestsInit /\ (part # "request" => slack = Resting(RequestBounds))
    /\ ShelfInit /\ (part # "shelf" => whims = Resting(ShelfBounds))
    /\ DialogInit /\ (part # "dialog" => latitude = Resting(DialogBounds))
    /\ ChangeInit /\ (part # "change" => chance = Resting(ChangeBounds))

SessionNext ==
    /\ UNCHANGED part
    /\ \/ part = "reads" /\ ReadsNext /\ UNCHANGED <<localVars, serviceVars, secretVars, fileVars, viewVars, changeVars, dialogVars, shelfVars, requestVars, operatorVars, operationVars, logVars>>
       \/ part = "local" /\ LocalNext /\ UNCHANGED <<readsVars, serviceVars, secretVars, fileVars, viewVars, changeVars, dialogVars, shelfVars, requestVars, operatorVars, operationVars, logVars>>
       \/ part = "services" /\ ServicesNext /\ UNCHANGED <<readsVars, localVars, secretVars, fileVars, viewVars, changeVars, dialogVars, shelfVars, requestVars, operatorVars, operationVars, logVars>>
       \/ part = "secrets" /\ SecretsNext /\ UNCHANGED <<readsVars, localVars, serviceVars, fileVars, viewVars, changeVars, dialogVars, shelfVars, requestVars, operatorVars, operationVars, logVars>>
       \/ part = "view" /\ ViewNext /\ UNCHANGED <<readsVars, localVars, serviceVars, secretVars, fileVars, changeVars, dialogVars, shelfVars, requestVars, operatorVars, operationVars, logVars>>
       \/ part = "change" /\ ChangeNext /\ UNCHANGED <<readsVars, localVars, serviceVars, secretVars, fileVars, viewVars, dialogVars, shelfVars, requestVars, operatorVars, operationVars, logVars>>
       \/ part = "dialog" /\ DialogNext /\ UNCHANGED <<readsVars, localVars, serviceVars, secretVars, fileVars, viewVars, changeVars, shelfVars, requestVars, operatorVars, operationVars, logVars>>
       \/ part = "shelf" /\ ShelfNext /\ UNCHANGED <<readsVars, localVars, serviceVars, secretVars, fileVars, viewVars, changeVars, dialogVars, requestVars, operatorVars, operationVars, logVars>>
       \/ part = "request" /\ RequestsNext /\ UNCHANGED <<readsVars, localVars, serviceVars, secretVars, fileVars, viewVars, changeVars, dialogVars, shelfVars, operatorVars, operationVars, logVars>>
       \/ part = "operator" /\ OperatorNext /\ UNCHANGED <<readsVars, localVars, serviceVars, secretVars, fileVars, viewVars, changeVars, dialogVars, shelfVars, requestVars, operationVars, logVars>>
       \/ part = "operations" /\ OperationNext /\ UNCHANGED <<readsVars, localVars, serviceVars, secretVars, fileVars, viewVars, changeVars, dialogVars, shelfVars, requestVars, operatorVars, logVars>>
       \/ part = "logs" /\ LogsNext /\ UNCHANGED <<readsVars, localVars, serviceVars, secretVars, fileVars, viewVars, changeVars, dialogVars, shelfVars, requestVars, operatorVars, operationVars>>
       \/ part = "files" /\ FilesNext /\ UNCHANGED <<readsVars, localVars, serviceVars, secretVars, viewVars, changeVars, dialogVars, shelfVars, requestVars, operatorVars, operationVars, logVars>>

SessionSpec == SessionInit /\ [][SessionNext]_sessionVars

=============================================================================
