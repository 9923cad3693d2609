----------------------------- MODULE SavedViews -----------------------------
(***************************************************************************)
(* The filter language of the device list and the views saved of it: a     *)
(* line is parsed into terms, terms are tested against what the local      *)
(* client and the administration say of a device, turned into the clauses  *)
(* of a saved view, kept in a file the next start must accept whole, and   *)
(* turned back into terms and into a line.  Words are sequences; one field *)
(* stands for each kind: free text, a closed vocabulary, an age, a         *)
(* property, a field only the administration knows.                        *)
(***************************************************************************)
EXTENDS Integers, Sequences, FiniteSets

CONSTANTS Titles,        \* the names of saved views
          ShelfBounds    \* what may happen: [acts, lines, faults], and the views written by hand

\* Words of the vocabularies.
True == <<7>>
False == <<8>>
Unsure == <<9>>
Online == <<5>>
Offline == <<6>>
Approved == <<3>>
Pending == <<4>>
Ssh == <<2>>

\* The schema of the device list: the operators of a field and its vocabulary, {} when it is open.
Schema ==
    [name     |-> [operators |-> {"match", "starts"},     vocabulary |-> {}],
     owner    |-> [operators |-> {"match", "starts"},     vocabulary |-> {}],
     online   |-> [operators |-> {"match"},               vocabulary |-> {True, False, Unsure}],
     lastSeen |-> [operators |-> {"<", "<=", ">", ">="},  vocabulary |-> {}],
     property |-> [operators |-> {"match"},               vocabulary |-> {Ssh}],
     approval |-> [operators |-> {"match"},               vocabulary |-> {Approved, Pending, Unsure}]]
Comparisons == {"<", "<=", ">", ">="}
AdminFields == {"approval"}

\* The operators a saved view may use, by field.
Registered ==
    [name     |-> {"equals", "contains"},
     owner    |-> {"equals", "not_equals", "contains"},
     online   |-> {"equals", "not_equals", "contains"},
     lastSeen |-> {"equals", "not_equals", "contains", ">", "<"},
     approval |-> {"equals", "not_equals", "contains"}]

\* What is known of the devices: by the local client, and by the administration where it lists them.
Computer(name, owner, liveness, age, ssh, listed, authorized) ==
    [name |-> name, owner |-> owner, liveness |-> liveness, age |-> age, ssh |-> ssh, listed |-> listed, authorized |-> authorized]
Machines ==
    {Computer(<<1>>,    <<1>>,    Online,  0,  TRUE,  TRUE,  Approved),
     Computer(<<1, 2>>, <<1, 2>>, Offline, 1,  FALSE, TRUE,  Pending),
     Computer(<<2, 1>>, <<2, 1>>, Unsure,  2,  TRUE,  FALSE, Unsure),
     Computer(<<2>>,    <<2>>,    Online,  -1, FALSE, TRUE,  Unsure)}

VARIABLES whims,   \* what may still happen
          panel,   \* views.devices: the draft of the line, the applied terms, the sort
          shelf,   \* SavedViewsState: the views in memory, if any, and those in the file
          opened   \* history: what the view that is open was saved from

shelfVars == <<whims, panel, shelf, opened>>

NotOpen == [open |-> FALSE]

\* SavedView::validate, against the registry.
Valid(v) == \A i \in DOMAIN v.filters : v.filters[i].operator \in Registered[v.filters[i].field]

\* SavedViewStore::load refuses the whole file for one view.
Loads(views) ==
    /\ \A i \in DOMAIN views : Valid(views[i])
    /\ \A i, j \in DOMAIN views : views[i].title = views[j].title => i = j
ShelfFrom(disk) == [known |-> Loads(disk), memory |-> IF Loads(disk) THEN disk ELSE <<>>, disk |-> disk]
NewPanel == [draft |-> <<>>, applied |-> <<>>, sort |-> "up"]

ShelfInit ==
    /\ whims \in ShelfBounds
    /\ panel = NewPanel
    /\ shelf = ShelfFrom(whims.written)
    /\ opened = NotOpen

-----------------------------------------------------------------------------
(* The language *)

Includes(word, sub) == \E i \in 0..(Len(word) - Len(sub)) : SubSeq(word, i + 1, i + Len(sub)) = sub
Starts(word, sub) == Len(sub) <= Len(word) /\ SubSeq(word, 1, Len(sub)) = sub
TextMatches(word, sub, mode) ==
    CASE mode = "exact"    -> word = sub
      [] mode = "contains" -> Includes(word, sub)
      [] mode = "starts"   -> Starts(word, sub)

\* The tokens of a line, as parse_term asks for them: a value, or a comparison with one.
Words == Seq(Nat)
Tokens ==
    {tok \in [negated : BOOLEAN, field : DOMAIN Schema \cup {"none", "lastseen"}, operator : Comparisons \cup {"match", "starts"},
              values : Seq(Words), bound : Int] :
        tok.field = "none" \/ tok.operator \notin Comparisons => tok.values # <<>>}

Terms ==
    [kind : {"text", "field", "structured"}, field : DOMAIN Schema \cup {"none"}, negated : BOOLEAN, values : Seq(Words),
     how : Comparisons \cup {"none", "exact", "contains", "starts"}, bound : Int]
Term(kind, field, negated, values, how, bound) ==
    [kind |-> kind, field |-> field, negated |-> negated, values |-> values, how |-> how, bound |-> bound]
TextTerm(values) == Term("text", "none", FALSE, values, "none", 0)

\* parse_term: a token is [negated, field, operator, values, bound]; no field, free text.
Parses(tok) ==
    IF tok.field = "none" THEN ~tok.negated
    ELSE /\ tok.field \in DOMAIN Schema
         /\ tok.operator \in Schema[tok.field].operators
         /\ tok.operator = "match" /\ Schema[tok.field].vocabulary # {}
            => \A i \in DOMAIN tok.values : tok.values[i] \in Schema[tok.field].vocabulary
ParsedTerm(tok) ==
    IF tok.field = "none" THEN TextTerm(tok.values)
    ELSE CASE tok.operator \in Comparisons -> Term("field", tok.field, tok.negated, <<>>, tok.operator, tok.bound)
           [] tok.operator = "starts"      -> Term("structured", tok.field, tok.negated, tok.values, "starts", 0)
           [] tok.operator = "match"       -> Term("field", tok.field, tok.negated, tok.values, "none", 0)

\* parse: one token that is refused refuses the line.
LineParses(line) == \A i \in DOMAIN line : Parses(line[i])
Parsed(line) == [i \in DOMAIN line |-> ParsedTerm(line[i])]

Compares(how, age, bound) ==
    age >= 0 /\ CASE how = "<" -> age < bound [] how = "<=" -> age <= bound [] how = ">" -> age > bound [] OTHER -> age >= bound

\* What a vocabulary's word says of a device.
WordFits(field, word, d) ==
    CASE field = "online"   -> word = (CASE d.liveness = Online -> True [] d.liveness = Offline -> False [] OTHER -> Unsure)
      [] field = "property" -> word = Ssh /\ d.ssh
      [] field = "approval" -> word = d.authorized
      [] field = "lastSeen" -> FALSE
      [] OTHER              -> Includes(d[field], word)

\* FilterTerm::matches: the local client's device; fields only the administration knows pass.
LocalHolds(t, d) ==
    t.field \in AdminFields \/
    CASE t.kind = "text"       -> \E f \in {"name", "owner"} : Includes(d[f], t.values[1])
      [] t.kind = "field"      ->
            t.negated # IF t.how # "none" THEN Compares(t.how, d.age, t.bound)
                        ELSE \E i \in DOMAIN t.values : WordFits(t.field, t.values[i], d)
      [] t.kind = "structured" ->
            t.negated # CASE t.field \in {"name", "owner"} -> TextMatches(d[t.field], t.values[1], t.how)
                          [] t.field = "online"            -> TextMatches(d.liveness, t.values[1], t.how)
                          [] OTHER                         -> t.field = "property"

\* FilterTerm::matches_admin: the device as the administration lists it.
AdminHolds(t, d) ==
    CASE t.kind = "text"       -> \E f \in {"name", "owner"} : Includes(d[f], t.values[1])
      [] t.kind = "field"      ->
            t.negated # IF t.how # "none" THEN Compares(t.how, d.age, t.bound)
                        ELSE \E i \in DOMAIN t.values : WordFits(t.field, t.values[i], d)
      [] t.kind = "structured" ->
            t.negated # IF t.how = "exact" THEN WordFits(t.field, t.values[1], d)
                        ELSE CASE t.field \in {"name", "owner"} -> TextMatches(d[t.field], t.values[1], t.how)
                               [] t.field = "online"            -> TextMatches(d.liveness, t.values[1], t.how)
                               [] OTHER -> \E w \in Schema[t.field].vocabulary : WordFits(t.field, w, d) /\ TextMatches(w, t.values[1], t.how)

\* visible_indices_for, one device.
IsListed(terms, d) ==
    /\ \A i \in DOMAIN terms : LocalHolds(terms[i], d)
    /\ (\E i \in DOMAIN terms : terms[i].field \in AdminFields)
       => d.listed /\ \A i \in DOMAIN terms : AdminHolds(terms[i], d)

-----------------------------------------------------------------------------
(* Saving and reopening *)

\* saved_filter_from_term: what cannot be saved, and the clause of what can.
CanSave(t) ==
    /\ t.kind # "text"
    /\ t.field # "property"
    /\ t.how \in Comparisons => ~t.negated /\ t.how \in {"<", ">"}
    /\ Len(t.values) <= 1
ClauseOf(t) ==
    [field |-> t.field, values |-> t.values, bound |-> t.bound,
     operator |-> IF t.how \in Comparisons THEN t.how
                  ELSE IF t.negated THEN "not_equals"
                  ELSE CASE t.how = "contains" -> "contains"
                         [] t.how = "starts"   -> "starts_with"
                         [] OTHER              -> "equals"]

\* saved_filter_to_term.
TermOf(c) ==
    CASE c.operator \in {"<", ">"}     -> Term("field", c.field, FALSE, <<>>, c.operator, c.bound)
      [] c.operator = "contains"       -> Term("structured", c.field, FALSE, c.values, "contains", 0)
      [] c.operator = "starts_with"    -> Term("structured", c.field, FALSE, c.values, "starts", 0)
      [] OTHER                         -> Term("structured", c.field, c.operator = "not_equals", c.values, "exact", 0)
Reopened(filters) == [i \in DOMAIN filters |-> TermOf(filters[i])]

\* What a file may hold: a clause has a value, or compares; a view that was
\* written by hand was saved from what its clauses say, and may be sorted by a
\* field that is registered and that the list has no column for.
Clauses ==
    {c \in [field : DOMAIN Registered, values : Seq(Words), bound : Int,
            operator : {"equals", "not_equals", "contains", "starts_with", "<", ">"}] :
        c.operator \notin {"<", ">"} => c.values # <<>>}
ByHand ==
    {v \in [title : Titles, sort : {"up", "down", "columnless"}, filters : Seq(Clauses), was : Seq(Terms)] : v.was = Reopened(v.filters)}

ASSUME ShelfAssumption ==
    ShelfBounds \subseteq [acts : Nat, lines : SUBSET Seq(Tokens), faults : Nat, written : Seq(ByHand)]

\* saved_filter_to_cli: the line that is put into the prompt; some fields get a name that the
\* language does not have.
TokenOf(c) ==
    [negated |-> c.operator = "not_equals", field |-> IF c.field = "lastSeen" THEN "lastseen" ELSE c.field,
     operator |-> CASE c.operator \in {"<", ">"} -> c.operator [] c.operator = "starts_with" -> "starts" [] OTHER -> "match",
     values |-> c.values, bound |-> c.bound]

Named(views, title) == \E i \in DOMAIN views : views[i].title = title

\* saved_view_from_form; was is history: what the view was saved from.
Capturable == \A i \in DOMAIN panel.applied : CanSave(panel.applied[i])
ViewOf(title) == [title |-> title, sort |-> panel.sort, filters |-> [i \in DOMAIN panel.applied |-> ClauseOf(panel.applied[i])],
                  was |-> panel.applied]

\* Mutant: a view is stored as it was captured.
Storable_Any(v) == TRUE

\* What create and replace ask of a view.
Storable(v) == Valid(v)

-----------------------------------------------------------------------------
(* The keys *)

Strokes == whims.acts > 0 /\ opened' = NotOpen
Spends == whims' = [whims EXCEPT !.acts = @ - 1]

\* persist: the file is written, or the memory is ahead of it.
KeepsViews(views) ==
    \E failed \in BOOLEAN :
        /\ failed => whims.faults > 0
        /\ whims' = [whims EXCEPT !.acts = @ - 1, !.faults = IF failed THEN @ - 1 ELSE @]
        /\ shelf' = [shelf EXCEPT !.memory = views, !.disk = IF failed THEN @ ELSE views]
        /\ UNCHANGED panel

\* accept_filter: a line that does not parse leaves the last one applied.
Filters(line) ==
    /\ Strokes /\ Spends /\ LineParses(line)
    /\ panel' = [panel EXCEPT !.draft = line, !.applied = Parsed(line)]
    /\ UNCHANGED shelf

SortsRows == Strokes /\ Spends /\ panel' = [panel EXCEPT !.sort = IF @ = "up" THEN "down" ELSE "up"] /\ UNCHANGED shelf

\* The list's views with view in the place of the one called title.
With(views, title, new) == [i \in DOMAIN views |-> IF views[i].title = title THEN new ELSE views[i]]

\* The list's views but the one in this place: no two have a name.
AllBut(views, place) == [i \in 1..(Len(views) - 1) |-> IF i < place THEN views[i] ELSE views[i + 1]]

SavesView(title) ==
    /\ Strokes /\ shelf.known /\ Capturable /\ Storable(ViewOf(title)) /\ ~Named(shelf.memory, title)
    /\ KeepsViews(Append(shelf.memory, ViewOf(title)))

ReplacesView(title) ==
    /\ Strokes /\ shelf.known /\ Capturable /\ Storable(ViewOf(title)) /\ Named(shelf.memory, title)
    /\ KeepsViews(With(shelf.memory, title, ViewOf(title)))

RenamesView(title, new) ==
    /\ Strokes /\ shelf.known /\ ~Named(shelf.memory, new)
    /\ \E i \in DOMAIN shelf.memory :
        /\ shelf.memory[i].title = title
        /\ KeepsViews(With(shelf.memory, title, [shelf.memory[i] EXCEPT !.title = new]))

DeletesView(title) ==
    /\ Strokes /\ shelf.known
    /\ \E i \in DOMAIN shelf.memory : shelf.memory[i].title = title /\ KeepsViews(AllBut(shelf.memory, i))

\* apply_saved_view_to_ui: the filter is in place before the sort is converted,
\* and one that is refused leaves it there.
NarrowedTo(filters) == [panel EXCEPT !.draft = [k \in DOMAIN filters |-> TokenOf(filters[k])], !.applied = Reopened(filters)]
OpensView(title) ==
    /\ whims.acts > 0 /\ Spends /\ shelf.known
    /\ \E i \in DOMAIN shelf.memory :
        LET v == shelf.memory[i] IN
        /\ v.title = title
        /\ \/ /\ v.sort = "columnless"
              /\ panel' = NarrowedTo(v.filters) /\ opened' = NotOpen
           \/ /\ v.sort # "columnless"
              /\ panel' = [NarrowedTo(v.filters) EXCEPT !.sort = v.sort]
              /\ opened' = [open |-> TRUE, was |-> v.was, sort |-> v.sort]
    /\ UNCHANGED shelf

\* A new start reads the file, all of it or nothing.
Restarts == Strokes /\ Spends /\ shelf' = ShelfFrom(shelf.disk) /\ panel' = NewPanel

ShelfNext ==
    \/ \E line \in whims.lines \cup {panel.draft} : Filters(line)
    \/ SortsRows \/ Restarts
    \/ \E t \in Titles :
        SavesView(t) \/ ReplacesView(t) \/ DeletesView(t) \/ OpensView(t) \/ \E n \in Titles : RenamesView(t, n)

ShelfSpec == ShelfInit /\ [][ShelfNext]_shelfVars

-----------------------------------------------------------------------------
(* Properties *)

Plain(terms) == \A i \in DOMAIN terms : ~terms[i].negated

\* What the program writes is accepted by the next start, view by view, whatever
\* operation failed to write before, and a file it refused is left as it is; a
\* view that is opened is sorted as it was, and of a filter without negation
\* shows no device that the filter did not show when it was saved
\* (SavedViewStore, saved_filter_from_term, saved_filter_to_term).
ViewsStayUsable ==
    /\ shelf.known = Loads(whims.written)
    /\ IF shelf.known THEN Loads(shelf.disk) /\ Loads(shelf.memory) ELSE shelf.disk = whims.written
    /\ opened.open /\ Plain(opened.was) =>
        /\ panel.sort = opened.sort
        /\ \A d \in Machines : IsListed(panel.applied, d) => IsListed(opened.was, d)

\* A view that is opened shows the devices it showed when it was saved:
\* saved_filter_from_term refuses what "cannot be saved exactly", app.rs 2661.
ReopenedAsSaved ==
    opened.open => \A d \in Machines : IsListed(panel.applied, d) <=> IsListed(opened.was, d)

=============================================================================
