----------------------------- MODULE DeviceView -----------------------------
(***************************************************************************)
(* What the device list shows and which device is selected: the refreshes  *)
(* that replace the list, the cache of its visible rows, the filter line   *)
(* with what Esc restores, sorting, the history of views, saved views, and *)
(* the changes of route the user does not make: the daemon that is lost,   *)
(* the profile whose probe answers.  Devices are numbers in their order by *)
(* name; the users and the profiles stand for the routes that keep an      *)
(* index into their rows.                                                  *)
(***************************************************************************)
EXTENDS Integers, Sequences, FiniteSets

CONSTANTS HistorySize,   \* ViewHistory.capacity
          ViewBounds     \* what may happen: [acts, kinds, refreshes, ticks, fleets, fields, profile]

Unpicked == 0

\* A list of devices, each of them once.
IsFleet(list) ==
    /\ list \in Seq(Nat \ {Unpicked})
    /\ \A i, j \in DOMAIN list : list[i] = list[j] => i = j

IsLeeway(b) ==
    /\ DOMAIN b = {"acts", "kinds", "refreshes", "ticks", "fleets", "fields", "profile"}
    /\ {b.acts, b.refreshes, b.ticks} \subseteq Nat /\ b.profile \in BOOLEAN
    /\ \A list \in b.fleets : IsFleet(list)

ASSUME ViewAssumption ==
    /\ HistorySize \in Nat \ {0}
    /\ \A b \in ViewBounds : IsLeeway(b)

Expressions == {"empty", "tag", "posture", "recent"}   \* recent compares with the clock
SimpleRoutes == {"users", "profiles"}
Places == SimpleRoutes \cup {"devices", "local"}

VARIABLES leeway,      \* what may still happen
          screen,      \* what is shown; see ViewInit
          filterLine,  \* InteractionMode::FilterLine: [open, input, draft, applied, picked, collection, profile]
          asOpened,    \* history: the screen when the filter line opened, until the route changes
          behind       \* history: where a view was last left, and what it was

viewVars == <<leeway, screen, filterLine, asOpened, behind>>

NewFrame(route) == [route |-> route, picked |-> Unpicked, draft |-> "empty", applied |-> "empty", order |-> "up"]
NoFilterLine == [open |-> FALSE]
NoPlace == [at |-> 0]
Forgotten == [known |-> FALSE]

ViewInit ==
    /\ leeway \in ViewBounds
    /\ screen = [devices |-> <<>>,                              \* devices_resource.snapshot
                 tagged |-> {}, compliant |-> {},               \* what its fields, and the profile's, say
                 generation |-> 0, reads |-> 0, now |-> 0,
                 draft |-> "empty", applied |-> "empty", order |-> "up", picked |-> Unpicked,   \* views.devices
                 cache |-> [key |-> <<>>, rows |-> <<>>],       \* device_visible_cache
                 simple |-> [r \in SimpleRoutes |-> [filter |-> "empty", row |-> 0]],
                 frames |-> <<NewFrame("devices")>>, cursor |-> 1,  \* view_history
                 daemon |-> TRUE, profile |-> leeway.profile, wanted |-> "none"]  \* pending_navigation_route
    /\ filterLine = NoFilterLine
    /\ asOpened = Forgotten
    /\ behind = NoPlace

Route(s) == s.frames[s.cursor].route

-----------------------------------------------------------------------------
(* The visible rows *)

Matches(s, d) ==
    CASE s.applied = "empty"   -> TRUE
      [] s.applied = "tag"     -> d \in s.tagged
      [] s.applied = "posture" -> d \in s.compliant
      [] s.applied = "recent"  -> d > s.now

\* The rows in order of their devices, each at its rank.
Precedes(list, order, i, j) == IF order = "up" THEN list[i] < list[j] ELSE list[i] > list[j]
Rank(list, order, rows, i) == Cardinality({j \in rows : Precedes(list, order, j, i)})
Ranked(list, order, rows) == [n \in 1..Cardinality(rows) |-> CHOOSE i \in rows : Rank(list, order, rows, i) = n - 1]

\* visible_indices_for.
VisibleFor(s) == Ranked(s.devices, s.order, {i \in DOMAIN s.devices : Matches(s, s.devices[i])})

\* Mutant: the list's generation is left out of the key.
CacheKey_NoGeneration(s) == <<0, s.reads, IF s.applied = "recent" THEN s.now ELSE -1, s.applied, s.order>>

CacheKey(s) == <<s.generation, s.reads, IF s.applied = "recent" THEN s.now ELSE -1, s.applied, s.order>>

\* visible_indices_arc: the screen with its cache up to date.
Looked(s) ==
    IF s.cache.key = CacheKey(s) THEN s
    ELSE [s EXCEPT !.cache = [key |-> CacheKey(s), rows |-> VisibleFor(s)]]

\* The devices at these rows; a row that is not there would stop the program.
DevicesAt(s, rows) == [i \in DOMAIN rows |-> IF rows[i] \in DOMAIN s.devices THEN s.devices[rows[i]] ELSE Unpicked]
PlaceIn(d, list) == IF \E i \in DOMAIN list : list[i] = d THEN CHOOSE i \in DOMAIN list : list[i] = d ELSE 1
Nearest(list, i) == IF list = <<>> THEN Unpicked ELSE list[IF i > Len(list) THEN Len(list) ELSE i]

\* reconcile_selection(None).
ReconcileSelection(s) ==
    LET old == DevicesAt(s, VisibleFor(s))
        looked == Looked(s)
        shown == DevicesAt(s, looked.cache.rows) IN
    IF s.picked # Unpicked /\ \E i \in DOMAIN shown : shown[i] = s.picked THEN looked
    ELSE [looked EXCEPT !.picked = Nearest(shown, PlaceIn(s.picked, old))]

\* reconcile_selection(Some): the position among the visible rows is used in the whole list.
ReconcileWith(s, list) ==
    IF \E i \in DOMAIN list : list[i] = s.picked THEN s
    ELSE [s EXCEPT !.picked = Nearest(list, PlaceIn(s.picked, DevicesAt(s, VisibleFor(s))))]

\* refresh_device_view, after the data it composes has changed to fields.
DisplayDevices(s, list, fields) ==
    LET data == [s EXCEPT !.compliant = fields.compliant] IN
    ReconcileSelection([ReconcileWith(data, list) EXCEPT !.devices = list, !.tagged = fields.tagged, !.generation = @ + 1])

-----------------------------------------------------------------------------
(* The history of views *)

\* current_view_frame, capture_current_frame.
CurrentFrame(s) ==
    IF Route(s) = "devices"
    THEN [route |-> "devices", picked |-> s.picked, draft |-> s.draft, applied |-> s.applied, order |-> s.order]
    ELSE [NewFrame(Route(s)) EXCEPT !.order = s.order]
Captured(s) == [s EXCEPT !.frames[s.cursor] = CurrentFrame(s)]

\* restore_view_frame.
RestoreFrame(s, frame) ==
    LET kept == [s EXCEPT !.wanted = IF frame.route = "profiles" THEN @ ELSE "none"] IN
    IF frame.route # "devices" THEN kept
    ELSE ReconcileSelection([kept EXCEPT !.draft = frame.draft, !.applied = frame.applied, !.order = frame.order, !.picked = frame.picked])

\* ViewHistory::append, of a frame that differs from the current one.
Appended(s, frame) ==
    LET longer == Append(SubSeq(s.frames, 1, s.cursor), frame)
        bounded == IF Len(longer) > HistorySize THEN Tail(longer) ELSE longer IN
    [s EXCEPT !.frames = bounded, !.cursor = Len(bounded)]

Navigated(s, route) ==
    IF Route(s) = route THEN s
    ELSE RestoreFrame(Appended(Captured(s), NewFrame(route)), NewFrame(route))

\* set_route.
Routed(s, route) == RestoreFrame([s EXCEPT !.frames = <<NewFrame(route)>>, !.cursor = 1], NewFrame(route))

-----------------------------------------------------------------------------
(* What comes without the user: answers, the clock, frames drawn *)

Closed == ~filterLine.open
Stays == UNCHANGED <<filterLine, asOpened, behind>>
DataChanges == leeway.refreshes > 0 /\ leeway' = [leeway EXCEPT !.refreshes = @ - 1]
\* What a change of route leaves of the histories.
Leaves(s) == asOpened' = Forgotten /\ behind' = [at |-> s.cursor - 1, frame |-> CurrentFrame(screen)] /\ UNCHANGED filterLine

\* A read of the local client's or the profile's data begins.
SourceReadBegins ==
    /\ DataChanges
    /\ screen' = [screen EXCEPT !.reads = @ + 1]
    /\ Stays

SourceAnswers ==
    /\ DataChanges
    /\ \E list \in leeway.fleets, fields \in leeway.fields : screen' = DisplayDevices(screen, list, fields)
    /\ Stays

\* invalidate_local_state: the account has changed.
Invalidates ==
    /\ DataChanges
    /\ \E list \in leeway.fleets :
           screen' = DisplayDevices([screen EXCEPT !.picked = Unpicked, !.reads = @ + 1], list,
                                       [tagged |-> screen.tagged, compliant |-> screen.compliant])
    /\ Stays

Ticks ==
    /\ leeway.ticks > 0 /\ leeway' = [leeway EXCEPT !.ticks = @ - 1]
    /\ screen' = [screen EXCEPT !.now = @ + 1]
    /\ Stays

Draws ==
    /\ Route(screen) = "devices"
    /\ screen' = Looked(screen) /\ screen' # screen
    /\ Stays /\ UNCHANGED leeway

\* leave_unavailable_route.
LosesDaemon ==
    /\ screen.daemon /\ DataChanges
    /\ LET lost == [DisplayDevices(screen, screen.devices, [tagged |-> screen.tagged, compliant |-> screen.compliant])
                       EXCEPT !.daemon = FALSE] IN
       IF Route(screen) = "devices" /\ ~screen.profile
       THEN /\ screen' = Routed(lost, "local")
            /\ asOpened' = Forgotten /\ behind' = NoPlace /\ UNCHANGED filterLine
       ELSE screen' = lost /\ Stays

\* apply_probed_profile.
ProfileAnswers ==
    /\ ~screen.profile /\ DataChanges
    /\ \E fields \in leeway.fields :
        LET active == [DisplayDevices(screen, screen.devices, fields) EXCEPT !.profile = TRUE] IN
        IF screen.wanted = "none" THEN screen' = active /\ Stays
        ELSE /\ screen' = Navigated([active EXCEPT !.wanted = "none"], screen.wanted)
             /\ Leaves(screen')

-----------------------------------------------------------------------------
(* The user *)

Acts(kind) == kind \in leeway.kinds /\ leeway.acts > 0 /\ leeway' = [leeway EXCEPT !.acts = @ - 1]

\* move_selection, move_selection_to.
MovesPick ==
    /\ Acts("move") /\ Closed /\ Route(screen) = "devices"
    /\ LET looked == Looked(screen)
           shown == DevicesAt(screen, looked.cache.rows)
           at == PlaceIn(screen.picked, shown) IN
       \E to \in {1, IF at > 1 THEN at - 1 ELSE 1, at + 1, Len(shown)} :
           screen' = [looked EXCEPT !.picked = Nearest(shown, IF to = 0 THEN 1 ELSE to)]
    /\ Stays

MovesRow ==
    /\ Acts("move") /\ Closed /\ Route(screen) \in SimpleRoutes
    /\ screen' = [screen EXCEPT !.simple[Route(screen)].row = 1 - @]
    /\ Stays

Sorts ==
    /\ Acts("sort") /\ Closed /\ Route(screen) = "devices"
    /\ screen' = ReconcileSelection([screen EXCEPT !.order = IF @ = "up" THEN "down" ELSE "up"])
    /\ Stays

OpensFilter ==
    /\ Acts("filter") /\ Closed /\ Route(screen) # "local"
    /\ LET input == IF Route(screen) = "devices" THEN screen.draft ELSE screen.simple[Route(screen)].filter IN
       filterLine' = [open |-> TRUE, input |-> input, draft |-> input, applied |-> screen.applied, picked |-> screen.picked,
                      collection |-> IF Route(screen) = "users" THEN screen.simple["users"].row ELSE 0,
                      profile |-> screen.simple["profiles"].row]
    /\ asOpened' = [known |-> TRUE, draft |-> screen.draft, applied |-> screen.applied, picked |-> screen.picked, simple |-> screen.simple]
    /\ UNCHANGED <<screen, behind>>

\* The route's filter becomes what is typed; devices are also filtered on the
\* routes that have no filter.
Filtered(s, input) ==
    IF Route(s) \in SimpleRoutes THEN [s EXCEPT !.simple[Route(s)] = [filter |-> input, row |-> 0]]
    ELSE IF input = "invalid" THEN s
    ELSE ReconcileSelection([s EXCEPT !.draft = input, !.applied = input])

\* update_live_filter.
Types(input) ==
    /\ Acts("filter") /\ ~Closed
    /\ filterLine' = [filterLine EXCEPT !.input = input]
    /\ screen' = Filtered(screen, input)
    /\ UNCHANGED <<asOpened, behind>>

\* accept_filter: an invalid expression is not accepted.
Accepts ==
    /\ Acts("filter") /\ ~Closed
    /\ Route(screen) \notin SimpleRoutes => filterLine.input # "invalid"
    /\ screen' = Filtered(screen, filterLine.input)
    /\ filterLine' = NoFilterLine /\ asOpened' = Forgotten
    /\ UNCHANGED behind

\* Esc in handle_filter_line_key.
Escaped(s) ==
    CASE Route(s) = "users"    -> [s EXCEPT !.simple["users"] = [filter |-> filterLine.draft, row |-> filterLine.collection]]
      [] Route(s) = "profiles" -> [s EXCEPT !.simple["profiles"] = [filter |-> filterLine.draft, row |-> filterLine.profile]]
      [] OTHER -> ReconcileSelection([s EXCEPT !.draft = filterLine.draft, !.applied = filterLine.applied, !.picked = filterLine.picked])

Escapes ==
    /\ Acts("filter") /\ ~Closed
    /\ screen' = Escaped(screen)
    /\ filterLine' = NoFilterLine /\ asOpened' = Forgotten
    /\ UNCHANGED behind

Available(route) ==
    CASE route = "users"   -> screen.profile
      [] route = "devices" -> screen.daemon \/ screen.profile
      [] OTHER             -> TRUE

\* open_navigation_route.
Navigates(route) ==
    /\ Acts("go") /\ Closed /\ Route(screen) # route
    /\ IF route = "users" /\ ~screen.profile
       THEN screen' = Navigated([screen EXCEPT !.wanted = "users"], "profiles")
       ELSE Available(route) /\ screen' = Navigated(screen, route)
    /\ IF Route(screen') = Route(screen) THEN Stays ELSE Leaves(screen')

\* move_history.
MovesHistory(step) ==
    /\ Acts("go") /\ Closed
    /\ LET kept == Captured(screen) IN
       IF screen.cursor + step \notin DOMAIN screen.frames THEN screen' = kept /\ Stays
       ELSE /\ screen' = RestoreFrame([kept EXCEPT !.cursor = @ + step], kept.frames[screen.cursor + step])
            /\ asOpened' = Forgotten /\ UNCHANGED filterLine
            /\ behind' = [at |-> screen.cursor, frame |-> CurrentFrame(screen)]

\* apply_saved_view_to_ui: a view of the devices with this filter and order.
AppliesSavedView(expression, order) ==
    /\ Acts("saved") /\ Closed
    /\ LET here == Route(screen) = "devices"
           there == Navigated(IF here THEN Captured(screen) ELSE screen, "devices")
           shown == ReconcileSelection([there EXCEPT !.draft = expression, !.applied = expression, !.order = order]) IN
       screen' = IF here THEN Appended(shown, CurrentFrame(shown)) ELSE Captured(shown)
    /\ Leaves(screen')

ViewNext ==
    \/ SourceReadBegins \/ SourceAnswers \/ Invalidates \/ Ticks \/ Draws \/ LosesDaemon \/ ProfileAnswers
    \/ MovesPick \/ MovesRow \/ Sorts \/ OpensFilter \/ Accepts \/ Escapes
    \/ \E input \in Expressions \cup {"invalid"} : Types(input)
    \/ \E route \in Places : Navigates(route)
    \/ \E step \in {-1, 1} : MovesHistory(step)
    \/ \E expression \in Expressions, order \in {"up", "down"} : AppliesSavedView(expression, order)

ViewSpec == ViewInit /\ [][ViewNext]_viewVars

-----------------------------------------------------------------------------
(* Properties *)

VisibleDevices(s) == {s.devices[i] : i \in {j \in DOMAIN s.devices : Matches(s, s.devices[j])}}
KeepsPick(old, s) == old.picked \in VisibleDevices(s) => s.picked = old.picked

\* Whatever order answers, ticks, keys and changes of route come in: the rows a
\* valid cache gives are those of the list, the text of the filter is the one
\* applied, and a visible device is selected while there is one (a filter that
\* reads the clock apart, which no tick reconciles).  A refresh keeps the
\* selection unless its row is gone or the account was changed; Esc gives back
\* the filter and the selection there were when the line opened, unless the
\* route was changed under it; and a view one goes back or forward to is as it
\* was left, at both ends of the bounded history.
SelectionIsKept ==
    [][/\ screen'.cache.key = CacheKey(screen') => screen'.cache.rows = VisibleFor(screen')
       /\ screen'.draft = screen'.applied
       /\ screen'.applied # "recent" =>
              IF VisibleDevices(screen') = {} THEN screen'.picked = Unpicked ELSE screen'.picked \in VisibleDevices(screen')
       /\ screen'.generation # screen.generation /\ screen'.reads = screen.reads => KeepsPick(screen, screen')
       /\ asOpened.known /\ Escapes =>
              /\ <<screen'.draft, screen'.applied, screen'.simple>> = <<asOpened.draft, asOpened.applied, asOpened.simple>>
              /\ Route(screen) = "devices" => KeepsPick(asOpened, screen')
       /\ behind.at # 0 /\ behind'.at = screen.cursor /\ screen'.cursor = behind.at /\ (\E step \in {-1, 1} : MovesHistory(step)) =>
              /\ Route(screen') = behind.frame.route
              /\ Route(screen') = "devices" =>
                    /\ <<screen'.draft, screen'.applied, screen'.order>> = <<behind.frame.draft, behind.frame.applied, behind.frame.order>>
                    /\ KeepsPick(behind.frame, screen')]_viewVars

=============================================================================
