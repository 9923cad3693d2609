---------------------------- MODULE ActionDialogs ----------------------------
(***************************************************************************)
(* From a key to an effect: which key reaches the command line, the menu   *)
(* or the overlay on top, how a form becomes a confirmation, what Enter    *)
(* accepts there, and what comes in between without a key: a review that   *)
(* is ready, a list that changes, a profile that is switched, a daemon     *)
(* that is lost.  One kind of action stands for each way through the code. *)
(* Keys and revocations are in OneTimeSecrets, policy in PolicyWorkflow.   *)
(***************************************************************************)
EXTENDS Integers, Sequences, FiniteSets
Pile == INSTANCE SequencesExt

CONSTANTS DialogAccounts,      \* the administration profiles
          DialogBounds   \* what may happen: [keys, kinds, lists, switches, refreshes, losses, readOnly]

NoRow == 0

(* form: it asks first; review: its confirmation waits for a read; remote: it
   writes to the administration; row: it acts on the selected row. *)
Way(form, review, remote, row, phrase) ==
    [form |-> form, review |-> review, remote |-> remote, row |-> row, phrase |-> phrase]
DialogKinds ==
    [change     |-> Way(TRUE,  TRUE,  TRUE,  TRUE,  "blank"),       \* admin_mutation
     delete     |-> Way(TRUE,  TRUE,  TRUE,  TRUE,  "DELETE"),      \* the same, with a phrase
     webhook    |-> Way(FALSE, FALSE, TRUE,  FALSE, "ROTATE"),      \* operational_mutation
     keyring    |-> Way(FALSE, FALSE, FALSE, FALSE, "REMOVE"),      \* ProfileCredentialRemove
     export     |-> Way(TRUE,  FALSE, FALSE, FALSE, "blank"),       \* with pending_export_document
     disconnect |-> Way(FALSE, FALSE, FALSE, FALSE, "DISCONNECT"),  \* mutation
     unserve    |-> Way(FALSE, FALSE, FALSE, TRUE,  "blank"),       \* service_request
     ssh        |-> Way(TRUE,  FALSE, FALSE, TRUE,  "blank")]       \* handoff
DaemonKinds == {"disconnect", "unserve", "ssh"}
Typings == {"DELETE", "ROTATE", "REMOVE", "DISCONNECT", "LOSE-SSH", "OVERWRITE"}

DialogAllowances ==
    [keys : Nat, switches : Nat, refreshes : Nat, losses : Nat, kinds : SUBSET DOMAIN DialogKinds,
     lists : SUBSET Seq(Nat \ {NoRow}), readOnly : (SUBSET DialogAccounts) \ {DialogAccounts}]

ASSUME DialogAssumption == DialogBounds \subseteq DialogAllowances

VARIABLES latitude,  \* what may still happen
          desk,      \* the reducer's state; see DialogInit
          begun      \* history: the effects started, with the review each was accepted from

dialogVars == <<latitude, desk, begun>>

DialogInit ==
    /\ latitude \in DialogBounds
    /\ desk = [mode |-> "normal", stack |-> <<>>, reviews |-> 0,  \* interaction, overlays, how many were opened
               account |-> CHOOSE a \in DialogAccounts \ latitude.readOnly : TRUE, generation |-> 0,
               live |-> TRUE, rows |-> <<1, 2>>, picked |-> 1,    \* the daemon, a list, its selected row
               reads |-> {}, writes |-> {},                       \* preflights and effects in flight
               document |-> 0, exists |-> FALSE,                  \* the pending document; a file is at its path
               handoff |-> FALSE, task |-> "none", replay |-> "none", quitting |-> FALSE]
    /\ begun = <<>>

TopOf(d) == IF d.stack = <<>> THEN [what |-> "nothing"] ELSE Pile!Last(d.stack)
Listed(d, row) == \E i \in DOMAIN d.rows : d.rows[i] = row
WithTop(d, overlay) == [d EXCEPT !.stack = Append(Pile!Front(@), overlay)]

-----------------------------------------------------------------------------
(* Opening *)

\* action_available, and what the handlers ask of the selection.
CanDo(d, kind) ==
    /\ DialogKinds[kind].remote => d.account \notin latitude.readOnly
    /\ kind = "webhook" => \A w \in d.writes : w.kind # "webhook"
    /\ kind \in DaemonKinds => d.live
    /\ DialogKinds[kind].row => Listed(d, d.picked)

\* open_operational_confirmation, open_mutation_confirmation, open_service_confirmation and the
\* others: what is pushed says what it is about, in the generation it is opened in.
Reviewed(d, kind, row, account, phrase) ==
    LET id == d.reviews + 1 IN
    [d EXCEPT !.reviews = id, !.document = IF kind = "export" THEN id ELSE IF kind = "webhook" THEN 0 ELSE @,
              !.stack = Append(@, [what |-> "review", id |-> id, kind |-> kind, row |-> row, account |-> account,
                                   generation |-> d.generation, phrase |-> phrase, typed |-> "blank"])]

RowOf(d, kind) == IF DialogKinds[kind].row THEN d.picked ELSE NoRow
FormOf(d, kind) == [d EXCEPT !.stack = Append(@, [what |-> "form", kind |-> kind])]

\* dispatch_action.
Dispatched(d, kind) ==
    IF ~CanDo(d, kind) THEN d
    ELSE IF DialogKinds[kind].form THEN FormOf(d, kind)
    ELSE Reviewed(d, kind, RowOf(d, kind), d.account, DialogKinds[kind].phrase)

\* start_admin_preflight.
ReadFirst(d, kind, row, account) ==
    [d EXCEPT !.reads = @ \cup {[kind |-> kind, row |-> row, account |-> account]}]

\* accept_admin_form, accept_handoff_form: for the row selected at that moment, not the one
\* the form names.
FormAccepted(d, form) ==
    LET row == RowOf(d, form.kind)
        popped == [d EXCEPT !.stack = Pile!Front(@)] IN
    IF DialogKinds[form.kind].row /\ ~Listed(d, row) THEN d
    ELSE IF DialogKinds[form.kind].review THEN ReadFirst(popped, form.kind, row, d.account)
    ELSE Reviewed(popped, form.kind, row, d.account,
                  IF form.kind = "export" /\ d.exists THEN "OVERWRITE" ELSE DialogKinds[form.kind].phrase)

-----------------------------------------------------------------------------
(* Accepting *)

Typed(r) == r.phrase # "blank" => r.typed = r.phrase

\* Mutant: a review of an earlier profile or refresh is accepted.
Confirmable_AnyGeneration(d, r) == Typed(r)

\* accept_confirmation, what is asked of every kind.
Confirmable(d, r) == r.generation = d.generation /\ Typed(r)

\* What each kind asks again: admin_mutation_available and admin_mutation_target_is_current,
\* operational_mutation_available, revalidate_service_request, the locks.
StillAllowed(d, r) ==
    CASE r.kind \in {"change", "delete"} ->
            d.account = r.account /\ CanDo(d, r.kind) /\ d.picked = r.row /\ \A w \in d.writes : w.row # r.row
      [] r.kind = "webhook"    -> CanDo(d, r.kind)
      [] r.kind = "export"     -> d.document # 0 /\ (d.exists => r.phrase = "OVERWRITE")
      [] r.kind = "disconnect" -> \A w \in d.writes : w.kind # "disconnect"
      [] r.kind = "unserve"    -> d.live /\ Listed(d, r.row) /\ \A w \in d.writes : w.kind # "unserve"
      [] OTHER                 -> TRUE

\* The effect as it is made: what it takes from the review, and what from the state of the moment.
EffectOf(d, r) ==
    [kind |-> r.kind, review |-> r, row |-> r.row,
     account |-> IF r.kind \in {"change", "delete"} THEN r.account ELSE d.account,
     about |-> IF r.kind = "export" THEN d.document ELSE r.id,
     permitted |-> DialogKinds[r.kind].remote => d.account \notin latitude.readOnly]

EffectStarted(d, r) ==
    [d EXCEPT !.stack = Pile!Front(@), !.document = IF r.kind = "export" THEN 0 ELSE @,
              !.exists = @ \/ r.kind = "export",
              !.writes = IF r.kind = "export" THEN @ ELSE @ \cup {[kind |-> r.kind, row |-> r.row]},
              !.handoff = r.kind = "ssh", !.task = IF r.kind \in {"change", "delete", "disconnect", "unserve"} THEN "running" ELSE @]

-----------------------------------------------------------------------------
(* The keys *)

Press == ~desk.quitting /\ ~desk.handoff /\ latitude.keys > 0 /\ latitude' = [latitude EXCEPT !.keys = @ - 1]
DeskBecomes(d) == desk' = d /\ UNCHANGED begun
Bare == desk.stack = <<>>

\* request_shutdown.
Quit(d) == [d EXCEPT !.quitting = TRUE, !.stack = <<>>, !.mode = "normal"]

\* pop_overlay.
PoppedOff(d) ==
    [d EXCEPT !.stack = Pile!Front(@), !.document = IF TopOf(d).what = "review" /\ TopOf(d).kind = "export" THEN 0 ELSE @]

\* A letter is an action only where nothing is open; the help sheet closes before it, the
\* menu only for what can be done.
ActionKey(kind) ==
    /\ Press /\ kind \in latitude.kinds /\ Bare
    /\ \/ desk.mode \in {"normal", "help"} /\ DeskBecomes(Dispatched([desk EXCEPT !.mode = "normal"], kind))
       \/ desk.mode = "menu" /\ CanDo(desk, kind) /\ DeskBecomes(Dispatched([desk EXCEPT !.mode = "normal"], kind))

\* The action menu, the command line and the help sheet.
ModeKey(mode) ==
    /\ Press /\ Bare /\ <<desk.mode, mode>> \in {"normal"} \X {"menu", "line", "help"} \cup {<<"menu", "help">>}
    /\ DeskBecomes([desk EXCEPT !.mode = mode])

\* handle_text_key, handle_paste: a key goes to the overlay on top, a paste first to the line.
Enters(d, text) == [TopOf(d) EXCEPT !.typed = IF @ = "blank" THEN text ELSE "other"]
TypeKey(text) ==
    /\ Press /\ TopOf(desk).what = "review"
    /\ DeskBecomes(WithTop(desk, Enters(desk, text)))
PasteKey(text) ==
    /\ Press /\ TopOf(desk).what = "review"
    /\ DeskBecomes(IF desk.mode = "line" THEN desk ELSE WithTop(desk, Enters(desk, text)))

\* handle_overlay_key: Tab declares the loss of the SSH session, and changes the phrase.
TabKey ==
    /\ Press /\ TopOf(desk).what = "review" /\ TopOf(desk).kind = "disconnect"
    /\ DeskBecomes(WithTop(desk, [TopOf(desk) EXCEPT !.phrase = IF @ = "LOSE-SSH" THEN "DISCONNECT" ELSE "LOSE-SSH"]))

EscKey ==
    /\ Press
    /\ DeskBecomes(IF Bare THEN [desk EXCEPT !.mode = "normal"] ELSE PoppedOff(desk))

\* Control-C: the overlay, the mode, the task, and then the program.
InterruptKey ==
    /\ Press
    /\ DeskBecomes(IF ~Bare THEN PoppedOff(desk)
                   ELSE IF desk.mode # "normal" THEN [desk EXCEPT !.mode = "normal"]
                   ELSE IF desk.task = "running" THEN [desk EXCEPT !.task = "stopping"]
                   ELSE Quit(desk))

\* handle_quit_key.
QuitKey ==
    /\ Press /\ Bare /\ desk.mode \in {"normal", "help"}
    /\ DeskBecomes(IF desk.task = "none" THEN Quit(desk) ELSE [desk EXCEPT !.stack = Append(@, [what |-> "quit"])])

EnterOther ==
    /\ Press
    /\ DeskBecomes(CASE TopOf(desk).what = "form" -> FormAccepted(desk, TopOf(desk))
                 [] TopOf(desk).what = "quit" -> Quit(desk)
                 [] Bare /\ desk.mode = "line" -> [desk EXCEPT !.mode = "normal"]
                 [] OTHER -> desk)
    /\ TopOf(desk).what # "review"

\* accept_confirmation.
EnterReview ==
    /\ Press /\ TopOf(desk).what = "review"
    /\ LET r == TopOf(desk) IN
       CASE Confirmable(desk, r) /\ StillAllowed(desk, r)
               -> desk' = EffectStarted(desk, r) /\ begun' = Append(begun, EffectOf(desk, r))
         [] Confirmable(desk, r) /\ ~StillAllowed(desk, r) /\ r.kind = "unserve" -> DeskBecomes(PoppedOff(desk))
         [] OTHER -> DeskBecomes(desk)

\* The same, when the preflight of the review has grown old: it is read again.
EnterStale ==
    /\ Press /\ TopOf(desk).what = "review" /\ TopOf(desk).kind \in {"change", "delete"}
    /\ Confirmable(desk, TopOf(desk)) /\ StillAllowed(desk, TopOf(desk))
    /\ LET r == TopOf(desk) IN DeskBecomes(ReadFirst([desk EXCEPT !.stack = Pile!Front(@)], r.kind, r.row, r.account))

\* retry_focused_task: a local command that failed is put to the user again.
RetryKey ==
    /\ Press /\ Bare /\ desk.mode = "normal" /\ desk.task = "none" /\ desk.replay # "none"
    /\ DeskBecomes(Reviewed(desk, desk.replay, NoRow, desk.account, DialogKinds[desk.replay].phrase))

-----------------------------------------------------------------------------
(* What happens without a key *)

Takes(what) == latitude[what] > 0 /\ latitude' = [latitude EXCEPT ![what] = @ - 1]
Meanwhile == ~desk.quitting

\* PreflightFinished: the confirmation is pushed over whatever is open.
ReviewArrives(r) ==
    /\ Meanwhile /\ r \in desk.reads
    /\ LET d == [desk EXCEPT !.reads = @ \ {r}] IN
       DeskBecomes(IF r.account = d.account THEN Reviewed(d, r.kind, r.row, r.account, DialogKinds[r.kind].phrase) ELSE d)
    /\ UNCHANGED latitude

\* The read failed, or met a conflict: reopen_admin_form.
ReviewRefused(r) ==
    /\ Meanwhile /\ r \in desk.reads
    /\ LET d == [desk EXCEPT !.reads = @ \ {r}] IN
       DeskBecomes(IF r.account = d.account THEN FormOf(d, r.kind) ELSE d)
    /\ UNCHANGED latitude

\* switch_profile, refused while a write runs.  The overlays stay.
ProfileSwitches(account) ==
    /\ Meanwhile /\ account # desk.account /\ Takes("switches")
    /\ DeskBecomes(IF \E w \in desk.writes : DialogKinds[w.kind].remote THEN desk
               ELSE [desk EXCEPT !.account = account, !.generation = @ + 1])

\* start_admin_refresh, when its time has come.
RefreshStarts == Meanwhile /\ Takes("refreshes") /\ DeskBecomes([desk EXCEPT !.generation = @ + 1])

\* A list is replaced: the selection stays on its row or moves to the nearest (reconcile_selection).
ListArrives(rows) ==
    /\ Meanwhile /\ rows # desk.rows
    /\ latitude.lists # {} /\ latitude' = [latitude EXCEPT !.lists = @ \ {rows}]
    /\ DeskBecomes([desk EXCEPT !.rows = rows,
                            !.picked = IF \E i \in DOMAIN rows : rows[i] = @ THEN @
                                         ELSE IF rows = <<>> THEN NoRow
                                         ELSE rows[1]])

DaemonGoes == Meanwhile /\ desk.live /\ Takes("losses") /\ DeskBecomes([desk EXCEPT !.live = FALSE])
DaemonReturns == Meanwhile /\ ~desk.live /\ DeskBecomes([desk EXCEPT !.live = TRUE]) /\ UNCHANGED latitude

\* An effect ends; a failed local command can be retried.
EffectEnds(w, failed) ==
    /\ w \in desk.writes
    /\ DeskBecomes([desk EXCEPT !.writes = @ \ {w}, !.handoff = IF w.kind = "ssh" THEN FALSE ELSE @,
                            !.task = IF w.kind \in {"webhook", "keyring"} THEN @ ELSE "none",
                            !.replay = IF failed /\ w.kind = "disconnect" THEN w.kind ELSE @])
    /\ UNCHANGED latitude

DialogNext ==
    \/ \E k \in DOMAIN DialogKinds : ActionKey(k)
    \/ \E m \in {"menu", "line", "help"} : ModeKey(m)
    \/ \E t \in Typings : TypeKey(t) \/ PasteKey(t)
    \/ TabKey \/ EscKey \/ InterruptKey \/ QuitKey \/ EnterOther \/ EnterReview \/ EnterStale \/ RetryKey
    \/ \E r \in desk.reads : ReviewArrives(r) \/ ReviewRefused(r)
    \/ \E a \in DialogAccounts : ProfileSwitches(a)
    \/ RefreshStarts \/ DaemonGoes \/ DaemonReturns
    \/ \E rows \in latitude.lists : ListArrives(rows)
    \/ \E w \in desk.writes, f \in BOOLEAN : EffectEnds(w, f)

DialogSpec == DialogInit /\ [][DialogNext]_dialogVars

-----------------------------------------------------------------------------
(* Properties *)

DialogForms  == {k \in DOMAIN DialogKinds : DialogKinds[k].form}
DialogReview == [what : {"review"}, id : Nat \ {0}, kind : DOMAIN DialogKinds, row : Nat, account : DialogAccounts,
                 generation : Nat, phrase : Typings \cup {"blank"}, typed : Typings \cup {"blank", "other"}]
DialogOverlays == DialogReview \cup [what : {"form"}, kind : DialogForms] \cup [what : {"quit"}]
DialogDesks  ==
    [mode : {"normal", "menu", "line", "help"}, stack : Seq(DialogOverlays),
     reviews : Nat, account : DialogAccounts, generation : Nat, live : BOOLEAN, rows : Seq(Nat \ {NoRow}), picked : Nat,
     reads : SUBSET [kind : {"change", "delete"}, row : Nat, account : DialogAccounts],
     writes : SUBSET [kind : DOMAIN DialogKinds \ {"export"}, row : Nat],
     document : Nat, exists : BOOLEAN, handoff : BOOLEAN, task : {"none", "running", "stopping"},
     replay : {"none", "disconnect"}, quitting : BOOLEAN]
DialogEffects ==
    [kind : DOMAIN DialogKinds, review : DialogReview, row : Nat, account : DialogAccounts, about : Nat, permitted : BOOLEAN]

\* What is open, what was asked for and what was started, with all they name.
DialogTypeOK ==
    /\ latitude \in DialogAllowances
    /\ desk \in DialogDesks
    /\ begun \in Seq(DialogEffects)

\* Every effect is the one a confirmation showed: its kind, its row, the profile
\* of its preview, the document that was built for it; its phrase was typed, a
\* write is permitted where it goes, and no confirmation starts two, however
\* the profile, the lists and the overlays changed while it was on the screen
\* (accept_confirmation, which takes part of the effect from the review and
\* part from the state of the moment).
OnlyReviewedStarts ==
    \A i \in DOMAIN begun :
        LET e == begun[i] IN
        /\ e.account = e.review.account
        /\ e.about = e.review.id
        /\ Typed(e.review)
        /\ e.permitted
        /\ \A j \in DOMAIN begun : begun[j].review.id = e.review.id => i = j

=============================================================================
