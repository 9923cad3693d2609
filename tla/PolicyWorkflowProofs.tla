------------------------ MODULE PolicyWorkflowProofs ------------------------
(***************************************************************************)
(* Proofs about PolicyWorkflow and TerminalHandoff: types, who owns the    *)
(* terminal, which files there are, and that only a reviewed draft is      *)
(* saved, for any documents, files, requests, children and scenarios.      *)
(***************************************************************************)
EXTENDS PolicyWorkflow, TLAPS

-----------------------------------------------------------------------------
(* The inductive invariant *)

\* While no child was refused there is one at most, it has the terminal, and a
\* terminal given away holds nothing.
TerminalInv ==
    /\ {suspended, gate} \subseteq BOOLEAN
    /\ faults \in Nat
    /\ acquired \subseteq Modes
    /\ ~refused => \A s \in Slots : child[s] # Idle =>
                       /\ suspended
                       /\ \A t \in Slots : child[t] # Idle => s = t
    /\ faults = 0 /\ suspended => acquired = {}
    /\ TerminalIsOwned

\* Without a workflow there is no temporary file, and no path of one.
FilesInv ==
    /\ ~Open => temp = NoPath /\ latest = NoPath
    /\ NothingLeftBehind

\* A preview that has been answered was shown, so a draft that is to be applied was;
\* an application that has not passed the comparison has not saved, nor has one
\* that reports a failure.
Truthful(r, docs) ==
    /\ r.kind = "preview" /\ r.step = "answered" /\ r.result # Error => r.result.doc \in docs
    /\ r.kind = "apply" /\ r.step \in {"asked", "compared", "conflicted"} => r.doc \in docs /\ ~r.saved
    /\ r.kind = "apply" /\ r.step = "answered" /\ r.result.outcome \in {"FailedRetained", "RemoteConflict"}
         => ~r.result.saved

RequestsInv ==
    /\ Open /\ wf.preview # None => wf.preview \in shown
    /\ \A n \in Requests : Truthful(request[n], shown)

-----------------------------------------------------------------------------
(* The operators on workflows *)

LEMMA StateTypes ==
    ASSUME NEW w \in Workflows, NEW state \in States
    PROVE  [w EXCEPT !.state = state] \in Workflows
BY DEF Workflows

LEMMA CandidateTypes ==
    ASSUME NEW w \in Workflows, NEW doc \in MaybeDocs, NEW at \in Nat, NEW path \in MaybePaths
    PROVE  SetCandidate(w, doc, at, path) \in Workflows
<1>1. Unvalidated \in Verdicts /\ None \in MaybeDocs
  BY DEF Unvalidated, Verdicts, MaybeDocs
<1>2. {"RemoteConflict", "CandidateReady"} \subseteq States
  BY DEF States
<1>3. \A state \in States :
        [w EXCEPT !.candidate = doc, !.seen = at, !.path = path, !.validation = Unvalidated, !.preview = None,
                  !.state = state] \in Workflows
  BY <1>1 DEF Workflows
<1> QED
  BY <1>2, <1>3 DEF SetCandidate

LEMMA BaseTypes ==
    ASSUME NEW w \in Workflows, NEW doc \in MaybeDocs
    PROVE  SetBase(w, doc) \in Workflows
<1>1. Opening(w.id) \in Workflows
  BY DEF Opening, Workflows, Unvalidated, Verdicts, MaybeDocs, MaybePaths, States
<1>2. \A v \in Workflows : [v EXCEPT !.base = doc, !.state = "EditingExternally"] \in Workflows
  BY DEF Workflows, States
<1> QED
  BY <1>1, <1>2 DEF SetBase

LEMMA JudgedTypes ==
    ASSUME NEW w \in Workflows
    PROVE  Judged(w) \in States
BY DEF Judged, States

LEMMA LatestTypes ==
    ASSUME NEW w \in Workflows, NEW doc \in MaybeDocs
    PROVE  SetLatestRemote(w, doc) \in Workflows
<1>1. \A state \in States : [w EXCEPT !.newest = doc, !.state = state] \in Workflows
  BY DEF Workflows
<1>2. w.state \in States /\ {"RemoteConflict", "CandidateReady"} \subseteq States
  BY DEF Workflows, States
<1> QED
  BY <1>1, <1>2, JudgedTypes DEF SetLatestRemote

LEMMA ValidationTypes ==
    ASSUME NEW w \in Workflows, NEW v \in Verdicts
    PROVE  SetValidation(w, v) \in Workflows
<1> DEFINE judged == [w EXCEPT !.validation = v]
<1>1. judged \in Workflows
  BY DEF Workflows
<1>2. "RemoteConflict" \in States /\ Judged(judged) \in States
  BY <1>1, JudgedTypes DEF States
<1> QED
  BY <1>1, <1>2, StateTypes DEF SetValidation

LEMMA PreviewTypes ==
    ASSUME NEW w \in Workflows, NEW doc \in MaybeDocs
    PROVE  SetPreview(w, doc) \in Workflows
<1>1. \A state \in States : [w EXCEPT !.preview = doc, !.state = state] \in Workflows
  BY DEF Workflows
<1> QED
  BY <1>1 DEF SetPreview, States

\* The preview of a workflow stays, goes, or becomes the one that was answered.
LEMMA Previews ==
    ASSUME NEW w \in Workflows, NEW doc \in MaybeDocs
    PROVE  /\ \A state \in States : [w EXCEPT !.state = state].preview = w.preview
           /\ \A at \in Nat : \A path \in MaybePaths : SetCandidate(w, doc, at, path).preview = None
           /\ SetLatestRemote(w, doc).preview = w.preview
           /\ \A v \in Verdicts : SetValidation(w, v).preview = w.preview
           /\ SetPreview(w, doc).preview \in {w.preview, doc}
BY DEF Workflows, SetCandidate, SetLatestRemote, SetValidation, SetPreview

\* A workflow is not the absence of one.
LEMMA WorkflowsAreOpen == NoWorkflow \notin Workflows
BY DEF NoWorkflow, Workflows, States

-----------------------------------------------------------------------------
(* Type correctness *)

LEMMA InitType == Init => TypeOK
BY PolicyAssumption DEF Init, TerminalInit, TypeOK, ChildRecords, RequestRecords, MaybePaths, Contents

\* A child that starts, and one that is done with.
LEMMA StartTypes ==
    ASSUME TypeOK, NEW c \in ChildRecords, c.status = "running", Start(c)
    PROVE  child' \in [Slots -> ChildRecords]
<1>1. [c EXCEPT !.status = "refused"] \in ChildRecords
  BY DEF ChildRecords, Idle
<1>2. PICK s \in Slots : child' \in {[child EXCEPT ![s] = [c EXCEPT !.status = "refused"]], [child EXCEPT ![s] = c]}
  <2>1. (CHOOSE slot \in Free : TRUE) \in Slots
    BY DEF Start, Free
  <2> QED
    BY <2>1 DEF Start
<1> QED
  BY <1>1, <1>2 DEF TypeOK

LEMMA GiveBackTypes ==
    ASSUME TypeOK, NEW s \in Slots, GiveBack(s)
    PROVE  child' \in [Slots -> ChildRecords]
BY DEF TypeOK, GiveBack, ChildRecords

\* A request that is asked, goes on, is answered, or is done with.
LEMMA AsksTypes ==
    ASSUME TypeOK, NEW rec \in RequestRecords, Asks(rec)
    PROVE  request' \in [Requests -> RequestRecords]
BY DEF TypeOK, Asks

LEMMA TakeTypes ==
    ASSUME TypeOK, NEW n \in Requests, NEW kind, Take(n, kind)
    PROVE  /\ request' \in [Requests -> RequestRecords]
           /\ UNCHANGED <<opened, now, remote>>
BY DEF TypeOK, Take, RequestRecords, Elsewhere

\* A new file has a path, and what remains of the others is what they were.
LEMMA FileTypes ==
    ASSUME TypeOK
    PROVE  /\ CanCreate => NewPath \in Paths
           /\ \A paths : Removed(files, paths) \in [Paths -> Contents]
           /\ \A paths : \A content \in Contents :
                 [Removed(files, paths) EXCEPT ![NewPath] = content] \in [Paths -> Contents]
BY DEF TypeOK, CanCreate, NewPath, Removed, Contents

\* What a step of each kind leaves behind has the types.
LEMMA UserTypes ==
    ASSUME TypeOK
    PROVE  /\ OpenWorkflow => TypeOK'
           /\ RefreshWorkflow => TypeOK'
           /\ Reopen => TypeOK'
           /\ NoticeChange => TypeOK'
           /\ Validate => TypeOK'
           /\ Preview => TypeOK'
           /\ OpenApply \/ OpenDiscard \/ OpenClose \/ Dismiss => TypeOK'
           /\ ConfirmApply => TypeOK'
           /\ ConfirmClose \/ SwitchProfile => TypeOK'
           /\ ConfirmReplace => TypeOK'
           /\ UserHandoff => TypeOK'
           /\ Quit => TypeOK'
<1>1. Open => wf \in Workflows
  BY DEF TypeOK, Open
<1>2. ASSUME OpenWorkflow
      PROVE  TypeOK'
  <2>1. Fetch(opened + 1) \in RequestRecords
    BY DEF TypeOK, Fetch, RequestRecords
  <2>2. Opening(opened + 1) \in Workflows
    BY DEF TypeOK, Opening, Workflows, Unvalidated, Verdicts, MaybeDocs, MaybePaths, States
  <2> QED
    BY <1>2, <2>1, <2>2, AsksTypes DEF OpenWorkflow, TypeOK, Elsewhere, terminalVars
<1>3. ASSUME RefreshWorkflow
      PROVE  TypeOK'
  <2>1. Fetch(wf.id) \in RequestRecords
    BY <1>1, <1>3 DEF RefreshWorkflow, Fetch, RequestRecords, Workflows
  <2> QED
    BY <1>3, <2>1, AsksTypes DEF RefreshWorkflow, TypeOK, Elsewhere, terminalVars
<1>4. ASSUME Reopen
      PROVE  TypeOK'
  <2>1. wf \in Workflows /\ wf.path \in Paths
    BY <1>1, <1>4 DEF Reopen, Workflows, MaybePaths
  <2>2. wf' \in Workflows
    BY <1>4, <2>1, StateTypes DEF Reopen, StartEditor, States, Workflows
  <2>3. child' \in [Slots -> ChildRecords]
    <3>1. [kind |-> "editor", status |-> "running", id |-> wf.id, path |-> wf.path] \in ChildRecords
      BY <2>1 DEF ChildRecords, Workflows
    <3> QED
      BY <1>4, <3>1, StartTypes DEF Reopen, StartEditor
  <2> QED
    BY <1>4, <2>2, <2>3 DEF Reopen, TypeOK, Elsewhere
<1>5. ASSUME NoticeChange
      PROVE  TypeOK'
  <2>1. Resync(wf) \in Workflows
    <3>1. wf \in Workflows /\ wf.path \in MaybePaths
      BY <1>1, <1>5 DEF NoticeChange, Workflows
    <3>2. [wf EXCEPT !.state = "FailedRetained"] \in Workflows
      BY <3>1, StateTypes DEF States
    <3>3. Readable(wf.path) => SetCandidate(wf, files[wf.path], now, wf.path) \in Workflows
      BY <3>1, CandidateTypes DEF Readable, TypeOK, MaybeDocs
    <3> QED
      BY <3>2, <3>3 DEF Resync
  <2> QED
    BY <1>5, <2>1 DEF NoticeChange, TypeOK, Elsewhere, terminalVars
<1>6. ASSUME NEW kind \in {"validate", "preview"}, NEW state \in States, Examine(kind, state)
      PROVE  TypeOK'
  <2>1. wf' \in Workflows
    BY <1>1, <1>6, StateTypes DEF Examine
  <2>2. [kind |-> kind, id |-> wf.id, path |-> wf.path, step |-> "asked"] \in RequestRecords
    BY <1>1, <1>6 DEF Examine, RequestRecords, Workflows, MaybePaths
  <2> QED
    BY <1>6, <2>1, <2>2, AsksTypes DEF Examine, TypeOK, Elsewhere, terminalVars
<1>7. ASSUME OpenApply \/ OpenDiscard \/ OpenClose \/ Dismiss
      PROVE  TypeOK'
  BY <1>7 DEF OpenApply, OpenDiscard, OpenClose, Show, Dismiss, TypeOK, Elsewhere, terminalVars
<1>8. ASSUME ConfirmApply
      PROVE  TypeOK'
  <2>1. wf' \in Workflows
    BY <1>1, <1>8, StateTypes DEF ConfirmApply, States
  <2>2. [kind |-> "apply", id |-> wf.id, path |-> wf.path, step |-> "asked",
         base |-> wf.base, doc |-> wf.candidate, saved |-> FALSE] \in RequestRecords
    BY <1>1, <1>8 DEF ConfirmApply, ApplyGuard, RequestRecords, Workflows, MaybeDocs
  <2> QED
    BY <1>8, <2>1, <2>2, AsksTypes DEF ConfirmApply, TypeOK, Elsewhere, terminalVars
<1>9. ASSUME ConfirmClose \/ SwitchProfile
      PROVE  TypeOK'
  BY <1>9, FileTypes DEF ConfirmClose, SwitchProfile, CloseWorkflow, CloseFiles, TypeOK, Elsewhere, terminalVars,
     MaybePaths
<1>10. ASSUME ConfirmReplace
       PROVE  TypeOK'
  <2>1. Open /\ wf.newest # None /\ CanCreate =>
          /\ SetCandidate(SetBase(wf, wf.newest), wf.newest, now, NewPath) \in Workflows
          /\ wf.newest \in Contents
    BY <1>1, BaseTypes, CandidateTypes, FileTypes DEF TypeOK, Workflows, MaybePaths, MaybeDocs, Contents
  <2> QED
    BY <1>10, <2>1, FileTypes DEF ConfirmReplace, TypeOK, Elsewhere, terminalVars, MaybePaths
<1>11. ASSUME UserHandoff
       PROVE  TypeOK'
  <2>1. [kind |-> "handoff", status |-> "running"] \in ChildRecords
    BY DEF ChildRecords
  <2> QED
    BY <1>11, <2>1, StartTypes DEF UserHandoff, OpenHandoff, TypeOK, policyVars
<1>12. ASSUME Quit
       PROVE  TypeOK'
  <2>1. child' \in [Slots -> ChildRecords] /\ request' \in [Requests -> RequestRecords]
    BY <1>12 DEF Quit, Stop, ChildRecords, RequestRecords
  <2> QED
    BY <1>12, <2>1, FileTypes DEF Quit, CloseWorkflow, CloseFiles, TypeOK, Elsewhere, MaybePaths
<1> QED
  BY <1>2, <1>3, <1>4, <1>5, <1>6, <1>7, <1>8, <1>9, <1>10, <1>11, <1>12 DEF Validate, Preview, States

\* A request that goes on, or is answered, is one still.
LEMMA WorkTypes ==
    ASSUME TypeOK, NEW n \in Requests, Work(n)
    PROVE  TypeOK'
<1> DEFINE r == request[n]
<1>1. r \in RequestRecords /\ remote \in Docs /\ now \in Nat
  BY DEF TypeOK
<1>2. ASSUME NEW rec \in RequestRecords, Becomes(n, rec), remote' \in Docs
      PROVE  TypeOK'
  BY <1>2 DEF TypeOK, Becomes, terminalVars
<1>3. ASSUME r.kind = "apply", r.step # "answered"
      PROVE  /\ r \in [kind : {"apply"}, id : Nat, path : MaybePaths, base : Docs, doc : Docs, saved : BOOLEAN,
                       step : {"asked", "compared", "conflicted", "confirmed", "uncertain"}]
             /\ Conflict(n) \in RequestRecords
             /\ \A outcome \in {"Succeeded", "SucceededUnverified", "FailedRetained", "OutcomeUnknown"} :
                   Ended(n, outcome) \in RequestRecords
             /\ \A step \in {"compared", "conflicted", "confirmed", "uncertain"} : \A saved \in BOOLEAN :
                   /\ [r EXCEPT !.step = step] \in RequestRecords
                   /\ [r EXCEPT !.step = step, !.saved = saved] \in RequestRecords
                   /\ [[r EXCEPT !.saved = saved] EXCEPT !.step = step] \in RequestRecords
  <2>1. r \in [kind : {"apply"}, id : Nat, path : MaybePaths, base : Docs, doc : Docs, saved : BOOLEAN,
               step : {"asked", "compared", "conflicted", "confirmed", "uncertain"}]
    BY <1>1, <1>3 DEF RequestRecords, Quiet
  <2>2. Conflict(n) \in RequestRecords
    BY <1>1, <2>1 DEF Conflict, Answered, RequestRecords, Outcomes
  <2>3. \A outcome \in {"Succeeded", "SucceededUnverified", "FailedRetained", "OutcomeUnknown"} :
           Ended(n, outcome) \in RequestRecords
    BY <1>1, <2>1 DEF Ended, Answered, RequestRecords, Outcomes
  <2>4. \A step \in {"compared", "conflicted", "confirmed", "uncertain"} : \A saved \in BOOLEAN :
           /\ [r EXCEPT !.step = step] \in RequestRecords
           /\ [r EXCEPT !.step = step, !.saved = saved] \in RequestRecords
           /\ [[r EXCEPT !.saved = saved] EXCEPT !.step = step] \in RequestRecords
    BY <2>1, ZenonT(60) DEF RequestRecords
  <2> QED
    BY <2>1, <2>2, <2>3, <2>4
<1>4. CASE AnswerFetch(n)
  <2>1. r.id \in Nat
    BY <1>1, <1>4 DEF AnswerFetch, RequestRecords, Quiet
  <2>2. Answered(n, [doc |-> remote]) \in RequestRecords /\ Answered(n, Error) \in RequestRecords
    BY <1>1, <2>1, <1>4 DEF AnswerFetch, Answered, RequestRecords
  <2> QED
    BY <1>1, <1>2, <1>4, <2>2 DEF AnswerFetch
<1>5. CASE AnswerValidate(n)
  <2>1. r.id \in Nat /\ r.path \in Paths
    BY <1>1, <1>5 DEF AnswerValidate, RequestRecords, Quiet
  <2>2. Answered(n, Error) \in RequestRecords
    BY <1>1, <2>1, <1>5 DEF AnswerValidate, Answered, RequestRecords
  <2>3. \A ok \in BOOLEAN : Readable(r.path) =>
          Answered(n, [doc |-> files[r.path], valid |-> ok, at |-> now]) \in RequestRecords
    BY <1>1, <2>1, <1>5 DEF AnswerValidate, Answered, RequestRecords, Readable
  <2> QED
    BY <1>1, <1>2, <1>5, <2>2, <2>3 DEF AnswerValidate
<1>6. CASE AnswerPreview(n)
  <2>1. r.id \in Nat /\ r.path \in Paths
    BY <1>1, <1>6 DEF AnswerPreview, RequestRecords, Quiet
  <2>2. /\ Answered(n, Error) \in RequestRecords
        /\ Readable(r.path) => Answered(n, [doc |-> files[r.path]]) \in RequestRecords
    BY <1>1, <2>1, <1>6 DEF AnswerPreview, Answered, RequestRecords, Readable
  <2> QED
    BY <1>1, <1>2, <1>6, <2>2 DEF AnswerPreview
<1>7. CASE CompareRemote(n)
  BY <1>1, <1>2, <1>3, <1>7 DEF CompareRemote, Unfinished
<1>8. CASE Save(n)
  <2>1. TagHolds(n) \in BOOLEAN
    BY DEF TagHolds
  <2>2. r.doc \in Docs /\ r.kind = "apply" /\ r.step = "compared"
    BY <1>3, <1>8 DEF Save, Unfinished
  <2> QED
    BY <1>1, <1>2, <1>3, <1>8, <2>1, <2>2 DEF Save, SaveMayHaveReached
<1>9. CASE Verify(n)
  BY <1>1, <1>2, <1>3, <1>9 DEF Verify, Unfinished
<1>10. CASE CannotVerify(n)
  BY <1>1, <1>2, <1>3, <1>10 DEF CannotVerify, Unfinished
<1>11. CASE ReadAgain(n)
  BY <1>1, <1>2, <1>3, <1>11 DEF ReadAgain, Unfinished
<1> QED
  BY <1>4, <1>5, <1>6, <1>7, <1>8, <1>9, <1>10, <1>11 DEF Work

\* update_policy: what an answer makes of the workflow and of the files.
LEMMA HandleTypes ==
    ASSUME TypeOK, NEW n \in Requests, Handle(n)
    PROVE  TypeOK'
<1> DEFINE r == request[n]
<1>1. r \in RequestRecords /\ NoPath \in MaybePaths /\ Paths \subseteq MaybePaths
  BY DEF TypeOK, MaybePaths
<1>2. ASSUME Ours(r.id)
      PROVE  wf \in Workflows
  BY <1>2 DEF Ours, Open, TypeOK
<1>3. ASSUME NEW kind, Take(n, kind), wf' \in Workflows \cup {NoWorkflow}, child' \in [Slots -> ChildRecords],
             {temp', latest'} \subseteq MaybePaths, files' \in [Paths -> Contents]
      PROVE  TypeOK'
  BY <1>3, TakeTypes DEF TypeOK
<1>4. UNCHANGED terminalVars => child' \in [Slots -> ChildRecords]
  BY DEF terminalVars, TypeOK
<1>5. KeepFiles => {temp', latest'} \subseteq MaybePaths /\ files' \in [Paths -> Contents]
  BY DEF KeepFiles, TypeOK
<1>6. KeepLatest \/ DropLatest => {temp', latest'} \subseteq MaybePaths /\ files' \in [Paths -> Contents]
  BY <1>1, FileTypes DEF KeepLatest, DropLatest, TypeOK, Contents
<1>7. \A state \in States : Ours(r.id) => [wf EXCEPT !.state = state] \in Workflows
  BY <1>2, StateTypes
<1>8. ASSUME RemoteFetched(n)
      PROVE  TypeOK'
  <2>1. Take(n, "fetch") /\ r.result \in {Error} \cup [doc : Docs]
    BY <1>1, <1>8 DEF RemoteFetched, Take, RequestRecords, Quiet
  <2>2. r.result # Error => r.result.doc \in Docs /\ r.result.doc \in MaybeDocs /\ r.result.doc \in Contents
    BY <2>1 DEF MaybeDocs, Contents
  <2>3. Ours(r.id) /\ r.result # Error => SetLatestRemote(wf, r.result.doc) \in Workflows
    BY <1>2, <2>2, LatestTypes
  <2>4. ASSUME Ours(r.id), r.result # Error, TakeRemote(r.result.doc)
        PROVE  TypeOK'
    <3> DEFINE w == SetCandidate(SetBase(wf, r.result.doc), r.result.doc, now, NewPath)
    <3>1. NewPath \in Paths /\ now \in Nat
      BY <2>4, FileTypes DEF TakeRemote, TypeOK
    <3>2. w \in Workflows /\ w.path \in Paths
      <4>1. SetBase(wf, r.result.doc) \in Workflows
        BY <1>2, <2>2, <2>4, BaseTypes
      <4>2. w \in Workflows
        BY <1>1, <2>2, <2>4, <3>1, <4>1, CandidateTypes
      <4>3. w.path = NewPath
        BY <4>1 DEF SetCandidate, Workflows
      <4> QED
        BY <3>1, <4>2, <4>3
    <3>3. {temp', latest'} \subseteq MaybePaths /\ files' \in [Paths -> Contents]
      BY <1>1, <2>2, <2>4, <3>1, FileTypes DEF TakeRemote
    <3>4. ASSUME StartEditor(w)
          PROVE  TypeOK'
      <4>1. wf' \in Workflows
        BY <3>2, <3>4, StateTypes DEF StartEditor, States, Workflows
      <4>2. [kind |-> "editor", status |-> "running", id |-> w.id, path |-> w.path] \in ChildRecords
        BY <3>2 DEF ChildRecords, Workflows
      <4>3. child' \in [Slots -> ChildRecords]
        BY <3>4, <4>2, StartTypes DEF StartEditor
      <4> QED
        BY <1>3, <2>1, <3>3, <4>1, <4>3
    <3>5. ASSUME wf' = w, UNCHANGED terminalVars
          PROVE  TypeOK'
      BY <1>3, <1>4, <2>1, <3>2, <3>3, <3>5
    <3> QED
      BY <2>4, <3>4, <3>5 DEF TakeRemote
  <2>5. ASSUME Ours(r.id), NotTaken
        PROVE  TypeOK'
    <3>1. wf' \in Workflows
      BY <1>7, <2>5 DEF NotTaken, States
    <3>2. {temp', latest'} \subseteq MaybePaths /\ files' \in [Paths -> Contents]
      BY <1>1, <2>5, FileTypes DEF NotTaken, CloseFiles
    <3> QED
      BY <1>3, <1>4, <2>1, <2>5, <3>1, <3>2 DEF NotTaken
  <2>6. CASE ~Ours(r.id) /\ UNCHANGED <<terminalVars, wf>> /\ KeepFiles
    BY <1>3, <1>4, <1>5, <2>1, <2>6 DEF TypeOK
  <2>7. CASE /\ Ours(r.id) /\ wf' = [wf EXCEPT !.state = "FailedRetained"]
             /\ KeepFiles /\ UNCHANGED terminalVars
    BY <1>3, <1>4, <1>5, <1>7, <2>1, <2>7 DEF States
  <2>8. CASE /\ Ours(r.id) /\ r.result # Error /\ (KeepLatest \/ DropLatest)
             /\ wf' \in {wf, SetLatestRemote(wf, r.result.doc)} /\ UNCHANGED terminalVars
    <3>1. wf' \in Workflows
      BY <1>2, <2>3, <2>8
    <3>2. {temp', latest'} \subseteq MaybePaths /\ files' \in [Paths -> Contents]
      BY <1>6, <2>8
    <3> QED
      BY <1>3, <1>4, <2>1, <2>8, <3>1, <3>2
  <2> QED
    BY <1>8, <2>4, <2>5, <2>6, <2>7, <2>8 DEF RemoteFetched
<1>9. ASSUME Validated(n)
      PROVE  TypeOK'
  <2>1. Take(n, "validate") /\ r.result \in {Error} \cup [doc : Docs, valid : BOOLEAN, at : Nat]
    BY <1>1, <1>9 DEF Validated, Take, RequestRecords, Quiet
  <2>2. wf' \in Workflows \cup {NoWorkflow}
    <3>1. r.result # Error => r.result \in Verdicts
      BY <2>1 DEF Verdicts, MaybeDocs
    <3>2. Ours(r.id) /\ r.result # Error => SetValidation(wf, r.result) \in Workflows
      BY <1>2, <3>1, ValidationTypes
    <3>3. wf' \in {wf, SetValidation(wf, r.result), [wf EXCEPT !.state = "FailedRetained"]}
      BY <1>9 DEF Validated
    <3>4. ~Ours(r.id) => wf' = wf
      BY <1>9 DEF Validated, Ours
    <3>5. r.result = Error => wf' \in {wf, [wf EXCEPT !.state = "FailedRetained"]}
      BY <1>9 DEF Validated
    <3> QED
      BY <1>7, <3>2, <3>3, <3>4, <3>5 DEF States, TypeOK
  <2> QED
    BY <1>3, <1>4, <1>5, <1>9, <2>1, <2>2 DEF Validated
<1>10. ASSUME PreviewFinished(n)
       PROVE  TypeOK'
  <2>1. Take(n, "preview") /\ r.result \in {Error} \cup [doc : Docs]
    BY <1>1, <1>10 DEF PreviewFinished, Take, RequestRecords, Quiet
  <2>2. wf' \in Workflows \cup {NoWorkflow}
    <3>1. r.result # Error => r.result.doc \in MaybeDocs
      BY <2>1 DEF MaybeDocs
    <3>2. Ours(r.id) /\ r.result # Error => SetPreview(wf, r.result.doc) \in Workflows
      BY <1>2, <3>1, PreviewTypes
    <3>3. wf' \in {wf, SetPreview(wf, r.result.doc), [wf EXCEPT !.state = "FailedRetained"]}
      BY <1>10 DEF PreviewFinished
    <3>4. ~Ours(r.id) => wf' = wf
      BY <1>10 DEF PreviewFinished, Ours
    <3>5. r.result = Error => wf' \in {wf, [wf EXCEPT !.state = "FailedRetained"]}
      BY <1>10 DEF PreviewFinished
    <3> QED
      BY <1>7, <3>2, <3>3, <3>4, <3>5 DEF States, TypeOK
  <2> QED
    BY <1>3, <1>4, <1>5, <1>10, <2>1, <2>2 DEF PreviewFinished
<1>11. ASSUME Applied(n)
       PROVE  TypeOK'
  <2>1. Take(n, "apply") /\ r.result \in Outcomes
    BY <1>1, <1>11 DEF Applied, Take, RequestRecords, Quiet
  <2>2. /\ r.result.outcome = "RemoteConflict" => r.result.doc \in MaybeDocs
        /\ r.result.outcome # "RemoteConflict" => r.result.outcome \in States
    BY <2>1 DEF Outcomes, MaybeDocs, States
  <2>3. Ours(r.id) /\ r.result.outcome = "RemoteConflict" => SetLatestRemote(wf, r.result.doc) \in Workflows
    BY <1>2, <2>2, LatestTypes
  <2>4. wf' \in Workflows \cup {NoWorkflow}
    BY <1>7, <1>11, <2>2, <2>3 DEF Applied, TypeOK
  <2> QED
    BY <1>3, <1>4, <1>5, <1>6, <1>11, <2>1, <2>4 DEF Applied
<1> QED
  BY <1>8, <1>9, <1>10, <1>11 DEF Handle

\* The children, other writers, and the clock.
LEMMA OtherTypes ==
    ASSUME TypeOK
    PROVE  /\ \A s \in Slots : EditorSaves(s) \/ EditorExits(s) => TypeOK'
           /\ \A s \in Slots : HandoffExits(s) /\ UNCHANGED policyVars => TypeOK'
           /\ \A s \in Slots : Finished(s) => TypeOK'
           /\ OthersWrite \/ OthersSave \/ Tick => TypeOK'
           /\ UNCHANGED vars => TypeOK'
<1>1. ASSUME NEW s \in Slots, EditorSaves(s)
      PROVE  TypeOK'
  BY <1>1 DEF EditorSaves, TypeOK, Elsewhere, terminalVars, Contents
<1>2. ASSUME NEW s \in Slots, EditorExits(s)
      PROVE  TypeOK'
  <2>1. child[s] \in [kind : {"editor"}, status : {"running", "refused"}, id : Nat, path : Paths]
    BY <1>2 DEF EditorExits, TypeOK, ChildRecords, Idle
  <2>2. \A result \in {files[child[s].path], Unreadable} : result \in Contents
    BY <2>1 DEF TypeOK, Contents
  <2>3. \A result \in Contents :
          [kind |-> "editor", id |-> child[s].id, path |-> child[s].path, status |-> "ended", result |-> result]
            \in ChildRecords
    BY <2>1 DEF ChildRecords
  <2>4. child' \in [Slots -> ChildRecords]
    BY <1>2, <2>2, <2>3 DEF EditorExits, TypeOK
  <2> QED
    BY <1>2, <2>4 DEF EditorExits, TypeOK, policyVars
<1>3. ASSUME NEW s \in Slots, HandoffExits(s), UNCHANGED policyVars
      PROVE  TypeOK'
  <2>1. child[s] \in [kind : {"handoff"}, status : {"running", "ended", "refused"}]
    BY <1>3 DEF HandoffExits, TypeOK, ChildRecords, Idle
  <2>2. [child[s] EXCEPT !.status = "ended"] \in ChildRecords
    BY <2>1 DEF ChildRecords
  <2> QED
    BY <1>3, <2>2 DEF HandoffExits, TypeOK, policyVars
<1>4. ASSUME NEW s \in Slots, EditorFinished(s)
      PROVE  TypeOK'
  <2>1. child' \in [Slots -> ChildRecords]
    BY <1>4, GiveBackTypes DEF EditorFinished
  <2>2. child[s].path \in MaybePaths
    BY <1>4 DEF EditorFinished, GiveBack, TypeOK, ChildRecords, MaybePaths, Idle
  <2>3. ASSUME NEW doc \in MaybeDocs, Ours(child[s].id)
        PROVE  SetCandidate(wf, doc, now, child[s].path) \in Workflows
    BY <2>2, <2>3, CandidateTypes DEF Ours, Open, TypeOK
  <2>4. ASSUME KeepFiles, wf' \in Workflows \cup {NoWorkflow}
        PROVE  TypeOK'
    BY <1>4, <2>1, <2>4 DEF EditorFinished, KeepFiles, TypeOK, Elsewhere
  <2>5. ASSUME CloseWorkflow
        PROVE  TypeOK'
    BY <1>4, <2>1, <2>5, FileTypes DEF EditorFinished, CloseWorkflow, CloseFiles, TypeOK, Elsewhere, MaybePaths
  <2>6. ASSUME Ours(child[s].id)
        PROVE  /\ [wf EXCEPT !.state = "FailedRetained"] \in Workflows
               /\ wf.base \in MaybeDocs
               /\ [SetCandidate(wf, wf.base, now, child[s].path) EXCEPT !.state = "FailedRetained"] \in Workflows
    <3>1. wf \in Workflows /\ wf.base \in MaybeDocs
      BY <2>6 DEF Ours, Open, TypeOK, Workflows
    <3> QED
      BY <2>3, <2>6, <3>1, StateTypes DEF States
  <2> QED
    BY <1>4, <2>3, <2>4, <2>5, <2>6 DEF EditorFinished, MaybeDocs, TypeOK
<1>5. ASSUME NEW s \in Slots, HandoffFinished(s), UNCHANGED policyVars
      PROVE  TypeOK'
  BY <1>5, GiveBackTypes DEF HandoffFinished, TypeOK, policyVars
<1>6. ASSUME OthersWrite \/ OthersSave \/ Tick
      PROVE  TypeOK'
  BY <1>6 DEF OthersWrite, OthersSave, Foreign, Tick, TypeOK, terminalVars, Contents
<1>7. ASSUME UNCHANGED vars
      PROVE  TypeOK'
  BY <1>7 DEF vars, terminalVars, policyVars, TypeOK
<1> QED
  BY <1>1, <1>2, <1>3, <1>4, <1>5, <1>6, <1>7 DEF Finished

LEMMA TypeStep == TypeOK /\ [Next]_vars => TypeOK'
BY UserTypes, WorkTypes, HandleTypes, OtherTypes DEF Next

\* The records of workflows, children and requests have their fields, the ones
\* their state calls for, through every operation of the policy workflow.
THEOREM TypeCorrect == Spec => []TypeOK
BY InitType, TypeStep, PTL DEF Spec

-----------------------------------------------------------------------------
(* The terminal *)

LEMMA InitTerminal == Init => TerminalInv
<1> SUFFICES ASSUME Init
             PROVE  TerminalInv
  OBVIOUS
<1>1. (\A s \in Slots : child[s] = Idle) /\ Running = {}
  BY DEF Init, TerminalInit, Running, Idle
<1>2. Wanted(Mouse) \subseteq Modes /\ Wanted(FALSE) \subseteq Wanted(Mouse)
  BY HandoffAssumption DEF Wanted, Modes
<1> QED
  BY <1>1, <1>2 DEF Init, TerminalInit, TerminalInv, TerminalIsOwned, ChildOwnsTerminal, ScreenIsTales

\* A terminal that is as it was.
LEMMA SameTerminal ==
    ASSUME TerminalInv, UNCHANGED terminalVars
    PROVE  TerminalInv'
BY DEF terminalVars, TerminalInv, TerminalIsOwned, ChildOwnsTerminal, ScreenIsTales, Running

\* A child that is to run gets the terminal when nobody else has it, and is
\* refused otherwise.
LEMMA StartTerminal ==
    ASSUME TypeOK, TerminalInv, phase # "stopped", phase' = phase,
           NEW c \in ChildRecords, c.status = "running", Start(c)
    PROVE  TerminalInv'
<1>1. PICK s \in Slots :
        \/ suspended /\ refused' = TRUE /\ UNCHANGED <<held, acquired, suspended, gate, faults>>
        \/ refused' = TRUE /\ Fault /\ acquired' = {} /\ UNCHANGED <<suspended, gate>>
        \/ /\ ~suspended /\ Release(acquired) /\ suspended' = TRUE /\ gate' = FALSE
           /\ child' = [child EXCEPT ![s] = c]
           /\ UNCHANGED <<faults, refused>>
  <2>1. (CHOOSE slot \in Free : TRUE) \in Slots
    BY DEF Start, Free
  <2> QED
    BY <2>1 DEF Start, ReleaseFails
<1>2. CASE suspended /\ refused' = TRUE /\ UNCHANGED <<held, acquired, suspended, gate, faults>>
  BY <1>2 DEF TerminalInv, TerminalIsOwned, ChildOwnsTerminal, ScreenIsTales
<1>3. CASE refused' = TRUE /\ Fault /\ acquired' = {} /\ UNCHANGED <<suspended, gate>>
  <2>1. faults' \in Nat \ {0} /\ acquired' \subseteq Modes
    BY <1>3 DEF Fault, TerminalInv
  <2> QED
    BY <1>3, <2>1 DEF TerminalInv, TerminalIsOwned, ChildOwnsTerminal, ScreenIsTales
<1>4. CASE /\ ~suspended /\ Release(acquired) /\ suspended' = TRUE /\ gate' = FALSE
           /\ child' = [child EXCEPT ![s] = c]
           /\ UNCHANGED <<faults, refused>>
  <2>1. ~refused' => \A t \in Slots : child'[t] # Idle => t = s
    BY <1>4 DEF TerminalInv, TypeOK
  <2>2. acquired' = {} /\ (faults' = 0 => held' = {})
    BY <1>4 DEF Release, TerminalInv, TerminalIsOwned, ScreenIsTales
  <2> QED
    BY <1>4, <2>1, <2>2 DEF TerminalInv, TerminalIsOwned, ChildOwnsTerminal, ScreenIsTales
<1> QED
  BY <1>1, <1>2, <1>3, <1>4

\* The end of a child that has been refused, or is gone, gives the terminal back.
LEMMA GiveBackTerminal ==
    ASSUME TypeOK, TerminalInv, phase # "stopped", NEW s \in Slots, GiveBack(s)
    PROVE  TerminalInv'
<1>1. child[s] # Idle /\ child' = [child EXCEPT ![s] = Idle] /\ refused' = refused /\ Resume
  BY DEF GiveBack, Idle
<1>2. ~refused' => \A t \in Slots : child'[t] = Idle
  BY <1>1 DEF TerminalInv, TypeOK
<1>3. ~refused' => Running' = {}
  BY <1>2 DEF Running, Idle
<1>4. CASE ~suspended /\ UNCHANGED <<held, acquired, suspended, gate, phase, faults>>
  BY <1>2, <1>3, <1>4 DEF TerminalInv, TerminalIsOwned, ChildOwnsTerminal, ScreenIsTales
<1>5. CASE /\ suspended
           /\ held' = held \cup Wanted(FALSE)
           /\ acquired' = Wanted(FALSE)
           /\ suspended' = FALSE
           /\ gate' = TRUE
           /\ UNCHANGED <<phase, faults>>
  <2>1. acquired' \subseteq Modes /\ (faults' = 0 => held' = acquired')
    BY <1>5 DEF TerminalInv, TerminalIsOwned, ScreenIsTales, Wanted, Modes
  <2> QED
    BY <1>2, <1>3, <1>5, <2>1 DEF TerminalInv, TerminalIsOwned, ChildOwnsTerminal, ScreenIsTales
<1>6. CASE /\ suspended /\ Fault
           /\ AcquireFails \/ acquired' = Wanted(FALSE)
           /\ gate' = TRUE
           /\ UNCHANGED suspended
  <2>1. acquired' \subseteq Modes /\ faults' \in Nat \ {0}
    BY <1>6 DEF AcquireFails, Release, Fault, Wanted, Modes, TerminalInv
  <2> QED
    BY <1>2, <1>3, <1>6, <2>1 DEF TerminalInv, TerminalIsOwned, ChildOwnsTerminal, ScreenIsTales
<1> QED
  BY <1>1, <1>4, <1>5, <1>6 DEF Resume

\* A child that exits has the terminal until its end is handled.
LEMMA ExitTerminal ==
    ASSUME TypeOK, TerminalInv, NEW s \in Slots, child[s].status = "running",
           NEW c \in ChildRecords, c.status = "ended", child' = [child EXCEPT ![s] = c],
           UNCHANGED <<held, acquired, suspended, gate, phase, faults, refused>>
    PROVE  TerminalInv'
<1>1. child[s] # Idle /\ child'[s] = c /\ c # Idle
  BY DEF Idle, TypeOK
<1>2. \A t \in Slots : child'[t] # Idle <=> child[t] # Idle
  BY <1>1 DEF TypeOK
<1>3. Running' \subseteq Running
  BY <1>1 DEF Running, TypeOK
<1> QED
  BY <1>2, <1>3 DEF TerminalInv, TerminalIsOwned, ChildOwnsTerminal, ScreenIsTales

\* The session cleans up when the program ends.
LEMMA StopTerminal ==
    ASSUME TerminalInv, Stop
    PROVE  TerminalInv'
<1>1. Running' = {} /\ \A t \in Slots : child'[t] = Idle
  BY DEF Stop, Running, Idle
<1>2. /\ acquired' = {} /\ faults' \in Nat
      /\ faults' = 0 => held' = {}
  <2>1. CASE Release(acquired) /\ UNCHANGED faults
    BY <2>1 DEF Release, TerminalInv, TerminalIsOwned, ScreenIsTales
  <2>2. CASE Fault /\ ReleaseFails(acquired)
    BY <2>2 DEF ReleaseFails, Fault, TerminalInv
  <2> QED
    BY <2>1, <2>2 DEF Stop
<1> QED
  BY <1>1, <1>2 DEF Stop, TerminalInv, TerminalIsOwned, ChildOwnsTerminal, ScreenIsTales

LEMMA TerminalStep ==
    ASSUME TypeOK, TypeOK', TerminalInv, [Next]_vars
    PROVE  TerminalInv'
<1>1. ASSUME NEW w \in Workflows, w.path \in Paths, StartEditor(w), phase # "stopped"
      PROVE  TerminalInv'
  <2>1. [kind |-> "editor", status |-> "running", id |-> w.id, path |-> w.path] \in ChildRecords
    BY <1>1 DEF ChildRecords, Workflows
  <2> QED
    BY <1>1, <2>1, StartTerminal DEF StartEditor
<1>2. CASE Reopen
  <2>1. wf \in Workflows /\ wf.path \in Paths /\ phase # "stopped"
    BY <1>2 DEF Reopen, Open, TypeOK, Workflows, MaybePaths, Chooses, UserActs
  <2> QED
    BY <1>1, <1>2, <2>1 DEF Reopen
<1>3. CASE UserHandoff
  <2>1. [kind |-> "handoff", status |-> "running"] \in ChildRecords
    BY DEF ChildRecords
  <2> QED
    BY <1>3, <2>1, StartTerminal DEF UserHandoff, OpenHandoff, UserActs
<1>4. CASE Quit
  BY <1>4, StopTerminal DEF Quit
<1>5. ASSUME NEW n \in Requests, RemoteFetched(n)
      PROVE  TerminalInv'
  <2> DEFINE doc == request[n].result.doc
             w   == SetCandidate(SetBase(wf, doc), doc, now, NewPath)
  <2>1. ASSUME Ours(request[n].id), request[n].result # Error, TakeRemote(doc)
        PROVE  TerminalInv'
    <3>1. wf \in Workflows /\ doc \in MaybeDocs /\ NewPath \in Paths /\ now \in Nat /\ phase # "stopped"
      <4>1. request[n].result \in {Error} \cup [doc : Docs]
        BY <1>5 DEF RemoteFetched, Take, TypeOK, RequestRecords, Quiet
      <4> QED
        BY <1>5, <2>1, <4>1, FileTypes DEF RemoteFetched, Take, TakeRemote, Ours, Open, TypeOK, MaybeDocs
    <3>2. w \in Workflows /\ w.path \in Paths
      <4>1. SetBase(wf, doc) \in Workflows
        BY <3>1, BaseTypes
      <4>2. w \in Workflows
        BY <3>1, <4>1, CandidateTypes DEF MaybePaths
      <4>3. w.path = NewPath
        BY <4>1 DEF SetCandidate, Workflows
      <4> QED
        BY <3>1, <4>2, <4>3
    <3> QED
      BY <1>1, <2>1, <3>1, <3>2, SameTerminal DEF TakeRemote
  <2> QED
    BY <1>5, <2>1, SameTerminal DEF RemoteFetched, NotTaken
<1>6. ASSUME NEW s \in Slots, EditorExits(s)
      PROVE  TerminalInv'
  <2>1. PICK c \in ChildRecords : c.status = "ended" /\ child' = [child EXCEPT ![s] = c]
    <3>1. child'[s] \in ChildRecords /\ child'[s].status = "ended" /\ child' = [child EXCEPT ![s] = child'[s]]
      BY <1>6 DEF EditorExits, TypeOK
    <3> QED
      BY <3>1
  <2> QED
    BY <1>6, <2>1, ExitTerminal DEF EditorExits
<1>7. ASSUME NEW s \in Slots, HandoffExits(s)
      PROVE  TerminalInv'
  <2>1. child[s] \in [kind : {"handoff"}, status : {"running", "ended", "refused"}]
    BY <1>7 DEF HandoffExits, TypeOK, ChildRecords, Idle
  <2>2. PICK c \in ChildRecords : c.status = "ended" /\ child' = [child EXCEPT ![s] = c]
    <3>1. [child[s] EXCEPT !.status = "ended"] \in ChildRecords
      BY <2>1 DEF ChildRecords
    <3>2. [child[s] EXCEPT !.status = "ended"].status = "ended"
      BY <2>1
    <3> QED
      BY <1>7, <3>1, <3>2 DEF HandoffExits
  <2> QED
    BY <1>7, <2>2, ExitTerminal DEF HandoffExits
<1>8. ASSUME NEW s \in Slots, Finished(s)
      PROVE  TerminalInv'
  BY <1>8, GiveBackTerminal DEF Finished, EditorFinished, HandoffFinished
<1>9. CASE OpenWorkflow \/ RefreshWorkflow \/ NoticeChange \/ Validate \/ Preview
           \/ OpenApply \/ OpenDiscard \/ OpenClose \/ Dismiss \/ ConfirmApply \/ ConfirmClose \/ ConfirmReplace
           \/ SwitchProfile \/ OthersWrite \/ OthersSave \/ Tick
  BY <1>9, SameTerminal DEF OpenWorkflow, RefreshWorkflow, NoticeChange, Validate, Preview, Examine,
     OpenApply, OpenDiscard, OpenClose, Show, Dismiss, ConfirmApply, ConfirmClose, ConfirmReplace,
     SwitchProfile, OthersWrite, OthersSave, Foreign, Tick
<1>10. ASSUME NEW n \in Requests, Work(n)
       PROVE  TerminalInv'
  BY <1>10, SameTerminal DEF Work, AnswerFetch, AnswerValidate, AnswerPreview, CompareRemote, Save, ReadAgain, Verify,
     CannotVerify, Becomes
<1>11. ASSUME NEW n \in Requests, Validated(n) \/ PreviewFinished(n) \/ Applied(n)
       PROVE  TerminalInv'
  BY <1>11, SameTerminal DEF Validated, PreviewFinished, Applied
<1>12. ASSUME NEW s \in Slots, EditorSaves(s)
       PROVE  TerminalInv'
  BY <1>12, SameTerminal DEF EditorSaves
<1>13. CASE UNCHANGED vars
  BY <1>13, SameTerminal DEF vars
<1> QED
  BY <1>2, <1>3, <1>4, <1>5, <1>6, <1>7, <1>8, <1>9, <1>10, <1>11, <1>12, <1>13 DEF Next, Handle

\* Up to the first refusal of a child, one that runs has the terminal: Tale
\* neither draws, nor reads keys, nor holds a mode of it.  (The end of a refused
\* child resumes the terminal while the other still runs, admin_reducer.rs:2211:
\* of what follows nothing is said of children.)  As long as no terminal call
\* fails, Tale draws on no terminal it has released, and leaves no mode behind.
THEOREM TerminalOwned == Spec => []TerminalIsOwned
<1>1. TerminalInv => TerminalIsOwned
  BY DEF TerminalInv
<1>2. TypeOK /\ TerminalInv /\ TypeOK' /\ [Next]_vars => TerminalInv'
  BY TerminalStep
<1> QED
  BY <1>1, <1>2, InitTerminal, TypeCorrect, PTL DEF Spec

-----------------------------------------------------------------------------
(* What a step makes of the workflow *)

\* It stays, is closed with its files, is made anew, goes on, or takes a preview.
LEMMA WorkflowStep ==
    ASSUME TypeOK, [Next]_vars
    PROVE  \/ UNCHANGED wf
           \/ wf' = NoWorkflow /\ CloseFiles
           \/ Open' /\ wf'.preview = None
           \/ Open /\ Open' /\ wf'.preview = wf.preview
           \/ Open' /\ \E n \in Requests : /\ PreviewFinished(n) /\ request[n].result # Error
                                           /\ wf'.preview = request[n].result.doc
<1> DEFINE Anew(w) == w \in Workflows /\ w.preview = None
           GoesOn(w) == w \in Workflows /\ w.preview = wf.preview
<1>1. ASSUME Anew(wf') \/ (Open /\ GoesOn(wf'))
      PROVE  (Open' /\ wf'.preview = None) \/ (Open /\ Open' /\ wf'.preview = wf.preview)
  BY <1>1, WorkflowsAreOpen DEF Open
<1>2. ASSUME Open
      PROVE  /\ wf \in Workflows /\ wf.state \in States /\ wf.path \in MaybePaths
             /\ {wf.base, wf.newest} \subseteq MaybeDocs
             /\ \A state \in States : GoesOn([wf EXCEPT !.state = state])
             /\ \A doc \in MaybeDocs : GoesOn(SetLatestRemote(wf, doc))
             /\ \A v \in Verdicts : GoesOn(SetValidation(wf, v))
             /\ \A doc \in MaybeDocs : \A path \in MaybePaths : Anew(SetCandidate(wf, doc, now, path))
  <2>1. wf \in Workflows /\ now \in Nat
    BY <1>2 DEF Open, TypeOK
  <2>2. wf.state \in States /\ wf.path \in MaybePaths /\ {wf.base, wf.newest} \subseteq MaybeDocs
    BY <2>1 DEF Workflows
  <2>3. None \in MaybeDocs
    BY DEF MaybeDocs
  <2>4. \A state \in States : GoesOn([wf EXCEPT !.state = state])
    BY <2>1, <2>3, StateTypes, Previews
  <2>5. \A doc \in MaybeDocs : GoesOn(SetLatestRemote(wf, doc))
    BY <2>1, LatestTypes, Previews
  <2>6. \A v \in Verdicts : GoesOn(SetValidation(wf, v))
    BY <2>1, <2>3, ValidationTypes, Previews
  <2>7. \A doc \in MaybeDocs : \A path \in MaybePaths : Anew(SetCandidate(wf, doc, now, path))
    BY <2>1, CandidateTypes, Previews
  <2> QED
    BY <2>1, <2>2, <2>4, <2>5, <2>6, <2>7
<1>3. ASSUME NEW doc \in MaybeDocs, Open, CanCreate
      PROVE  Anew(SetCandidate(SetBase(wf, doc), doc, now, NewPath))
  <2>1. SetBase(wf, doc) \in Workflows /\ now \in Nat /\ NewPath \in MaybePaths
    BY <1>2, <1>3, BaseTypes, FileTypes DEF TypeOK, MaybePaths
  <2> QED
    BY <2>1, CandidateTypes, Previews
<1>4. \A w \in Workflows : w.state \in States /\ \A state \in States :
          [w EXCEPT !.state = state] \in Workflows /\ [w EXCEPT !.state = state].preview = w.preview
  <2>1. None \in MaybeDocs
    BY DEF MaybeDocs
  <2> QED
    BY <2>1, StateTypes, Previews DEF Workflows
<1>5. {"EditingExternally", "FailedRetained", "Validating", "Previewing", "Applying"} \subseteq States
  BY DEF States
<1>6. CASE OpenWorkflow
  <2>1. Anew(Opening(opened + 1))
    BY DEF TypeOK, Opening, Workflows, Unvalidated, Verdicts, MaybeDocs, MaybePaths, States
  <2> QED
    BY <1>1, <1>6, <2>1 DEF OpenWorkflow
<1>7. CASE Reopen
  BY <1>1, <1>2, <1>5, <1>7 DEF Reopen, StartEditor
<1>8. CASE NoticeChange
  <2>1. Readable(wf.path) => files[wf.path] \in MaybeDocs
    BY DEF Readable, MaybeDocs
  <2> QED
    BY <1>1, <1>2, <1>5, <1>8, <2>1 DEF NoticeChange, Resync
<1>9. CASE Validate \/ Preview \/ ConfirmApply
  BY <1>1, <1>2, <1>5, <1>9 DEF Validate, Preview, Examine, ConfirmApply
<1>10. CASE ConfirmClose \/ SwitchProfile \/ Quit
  BY <1>10 DEF ConfirmClose, SwitchProfile, Quit, CloseWorkflow
<1>11. CASE ConfirmReplace
  BY <1>1, <1>2, <1>3, <1>11 DEF ConfirmReplace
<1>12. CASE RefreshWorkflow \/ OpenApply \/ OpenDiscard \/ OpenClose \/ Dismiss \/ UserHandoff
            \/ OthersWrite \/ OthersSave \/ Tick \/ UNCHANGED vars
  BY <1>12 DEF RefreshWorkflow, OpenApply, OpenDiscard, OpenClose, Show, Dismiss, UserHandoff, policyVars,
     OthersWrite, OthersSave, Foreign, Tick, vars
<1>13. ASSUME NEW n \in Requests, Work(n)
       PROVE  UNCHANGED wf
  BY <1>13 DEF Work, AnswerFetch, AnswerValidate, AnswerPreview, CompareRemote, Save, ReadAgain, Verify,
     CannotVerify, Becomes
<1>14. ASSUME NEW n \in Requests, Handle(n)
       PROVE  \/ UNCHANGED wf
              \/ Anew(wf') \/ (Open /\ GoesOn(wf'))
              \/ Open' /\ PreviewFinished(n) /\ request[n].result # Error /\ wf'.preview = request[n].result.doc
  <2> DEFINE r == request[n]
  <2>1. request[n] \in RequestRecords
    BY DEF TypeOK
  <2>2. Ours(r.id) => Open
    BY DEF Ours
  <2>3. CASE RemoteFetched(n)
    <3>1. r.result # Error => r.result.doc \in MaybeDocs
      BY <2>1, <2>3 DEF RemoteFetched, Take, RequestRecords, Quiet, MaybeDocs
    <3>2. ASSUME Ours(r.id), r.result # Error, TakeRemote(r.result.doc)
          PROVE  Anew(wf')
      <4> DEFINE w == SetCandidate(SetBase(wf, r.result.doc), r.result.doc, now, NewPath)
      <4>1. Anew(w)
        BY <1>3, <2>2, <3>1, <3>2 DEF TakeRemote
      <4>2. wf' \in {w} \cup {[w EXCEPT !.state = state] : state \in States}
        BY <1>4, <1>5, <3>2, <4>1 DEF TakeRemote, StartEditor
      <4> QED
        BY <1>4, <4>1, <4>2
    <3>3. Ours(r.id) /\ NotTaken => GoesOn(wf')
      BY <1>2, <1>5, <2>2 DEF NotTaken
    <3> QED
      BY <1>2, <1>5, <2>2, <2>3, <3>1, <3>2, <3>3 DEF RemoteFetched
  <2>4. CASE Validated(n)
    <3>1. r.result # Error => r.result \in Verdicts
      BY <2>1, <2>4 DEF Validated, Take, RequestRecords, Quiet, Verdicts, MaybeDocs
    <3> QED
      BY <1>2, <1>5, <2>2, <2>4, <3>1 DEF Validated
  <2>5. CASE PreviewFinished(n)
    <3>1. r.result # Error => r.result.doc \in MaybeDocs
      BY <2>1, <2>5 DEF PreviewFinished, Take, RequestRecords, Quiet, MaybeDocs
    <3>2. CASE Ours(r.id) /\ r.result # Error
      <4>1. wf' \in Workflows /\ wf'.preview \in {wf.preview, r.result.doc}
        BY <1>2, <2>2, <2>5, <3>1, <3>2, PreviewTypes, Previews DEF PreviewFinished
      <4> QED
        BY <2>2, <2>5, <3>2, <4>1, WorkflowsAreOpen DEF Open
    <3> QED
      BY <1>2, <1>5, <2>2, <2>5, <3>2 DEF PreviewFinished
  <2>6. CASE Applied(n)
    <3>1. /\ r.result.outcome = "RemoteConflict" => r.result.doc \in MaybeDocs
          /\ r.result.outcome # "RemoteConflict" => r.result.outcome \in States
      BY <2>1, <2>6 DEF Applied, Take, RequestRecords, Quiet, Outcomes, MaybeDocs, States
    <3> QED
      BY <1>2, <2>2, <2>6, <3>1 DEF Applied
  <2> QED
    BY <1>14, <2>3, <2>4, <2>5, <2>6 DEF Handle
<1>15. ASSUME NEW s \in Slots, EditorFinished(s)
       PROVE  \/ UNCHANGED wf
              \/ wf' = NoWorkflow /\ CloseFiles
              \/ Anew(wf') \/ (Open /\ GoesOn(wf'))
  <2>1. child[s].path \in MaybePaths
    BY <1>15 DEF EditorFinished, GiveBack, TypeOK, ChildRecords, MaybePaths, Idle
  <2>2. Ours(child[s].id) => Open
    BY DEF Ours
  <2>3. \A doc \in MaybeDocs : Ours(child[s].id) =>
           /\ Anew(SetCandidate(wf, doc, now, child[s].path))
           /\ Anew([SetCandidate(wf, doc, now, child[s].path) EXCEPT !.state = "FailedRetained"])
    BY <1>2, <1>4, <1>5, <2>1, <2>2
  <2>4. Docs \subseteq MaybeDocs
    BY DEF MaybeDocs
  <2> QED
    BY <1>2, <1>5, <1>15, <2>2, <2>3, <2>4, ZenonT(60) DEF EditorFinished, CloseWorkflow
<1>16. ASSUME NEW s \in Slots, EditorSaves(s) \/ EditorExits(s) \/ UNCHANGED policyVars
       PROVE  UNCHANGED wf
  BY <1>16 DEF EditorSaves, EditorExits, policyVars
<1> QED
  BY <1>1, <1>6, <1>7, <1>8, <1>9, <1>10, <1>11, <1>12, <1>13, <1>14, <1>15, <1>16 DEF Next, Finished

-----------------------------------------------------------------------------
(* The temporary files *)

LEMMA InitFiles == Init => FilesInv
BY DEF Init, FilesInv, NothingLeftBehind

LEMMA SameFiles ==
    ASSUME FilesInv, KeepFiles, UNCHANGED wf \/ Open'
    PROVE  FilesInv'
BY DEF FilesInv, NothingLeftBehind, KeepFiles, Open

\* Closing removes the files there are.
LEMMA ClosedFiles ==
    ASSUME TypeOK, FilesInv, CloseFiles
    PROVE  FilesInv'
BY DEF TypeOK, FilesInv, NothingLeftBehind, CloseFiles, Removed

\* The files that remain are those of the workflow.
LEMMA OtherFiles ==
    ASSUME TypeOK, FilesInv, Open', NEW paths, NEW content,
           \/ files' = Removed(files, paths)
           \/ CanCreate /\ NewPath \in {temp', latest'} /\ files' = [Removed(files, paths) EXCEPT ![NewPath] = content],
           \A p \in {temp, latest} : p \in paths \/ p \in {temp', latest'}
    PROVE  FilesInv'
<1>1. \A p \in Paths : files'[p] # Gone => p \in {temp', latest'}
  BY FileTypes DEF TypeOK, FilesInv, NothingLeftBehind, Removed
<1> QED
  BY <1>1 DEF FilesInv, NothingLeftBehind

LEMMA FilesStep ==
    ASSUME TypeOK, FilesInv, [Next]_vars
    PROVE  FilesInv'
<1>1. UNCHANGED wf \/ Open' \/ CloseFiles
  BY WorkflowStep
<1>2. CASE KeepFiles
  BY <1>1, <1>2, SameFiles, ClosedFiles
<1>3. CASE CloseFiles
  BY <1>3, ClosedFiles
<1>4. ASSUME Open, KeepLatest
      PROVE  FilesInv'
  <2>1. CASE Open'
    BY <1>4, <2>1, OtherFiles DEF KeepLatest
  <2> QED
    BY <1>1, <1>3, <1>4, <2>1 DEF Open
<1>5. ASSUME Open, DropLatest
      PROVE  FilesInv'
  <2>1. CASE Open'
    BY <1>5, <2>1, OtherFiles DEF DropLatest
  <2> QED
    BY <1>1, <1>3, <1>5, <2>1 DEF Open
<1>6. ASSUME Open, NEW doc, TakeRemote(doc)
      PROVE  FilesInv'
  <2>1. CASE Open'
    BY <1>6, <2>1, OtherFiles DEF TakeRemote
  <2> QED
    BY <1>1, <1>3, <1>6, <2>1 DEF Open
<1>7. CASE ConfirmReplace
  <2>1. CASE KeepFiles
    BY <1>2, <2>1
  <2>2. CASE Open /\ UNCHANGED <<wf, latest>> /\ temp' = NoPath /\ files' = Removed(files, {temp})
    BY <2>2, OtherFiles DEF Open
  <2>3. CASE /\ Open /\ CanCreate /\ temp' = NewPath /\ latest' = NoPath
             /\ files' = [Removed(files, {temp, latest}) EXCEPT ![NewPath] = wf.newest]
    <3>1. CASE Open'
      BY <2>3, <3>1, OtherFiles
    <3> QED
      BY <1>1, <1>3, <2>3, <3>1 DEF Open
  <2> QED
    BY <1>7, <2>1, <2>2, <2>3 DEF ConfirmReplace, KeepFiles
<1>8. ASSUME NEW n \in Requests, Handle(n)
      PROVE  FilesInv'
  <2>1. Ours(request[n].id) => Open
    BY DEF Ours
  <2> QED
    BY <1>2, <1>3, <1>4, <1>5, <1>6, <1>8, <2>1 DEF Handle, RemoteFetched, NotTaken, Validated, PreviewFinished, Applied
<1>9. ASSUME NEW s \in Slots, EditorSaves(s)
      PROVE  FilesInv'
  <2>1. PICK doc \in Docs : files' = [files EXCEPT ![child[s].path] = doc]
    BY <1>9 DEF EditorSaves
  <2>2. child[s].path \in Paths
    BY <1>9 DEF EditorSaves, TypeOK, ChildRecords, Idle
  <2>3. \A p \in Paths : files'[p] # Gone => files[p] # Gone
    BY <1>9, <2>1, <2>2 DEF EditorSaves, TypeOK
  <2> QED
    BY <1>9, <2>3 DEF EditorSaves, FilesInv, NothingLeftBehind, Open, TypeOK
<1>10. CASE OthersWrite
  <2>1. Open
    BY <1>10 DEF OthersWrite, FilesInv
  <2>2. Open' /\ temp' = temp /\ latest' = latest
    BY <1>10, <2>1 DEF OthersWrite, Foreign, Open
  <2>3. \A p \in Paths : p # temp => files'[p] = files[p]
    BY <1>10 DEF OthersWrite, TypeOK
  <2> QED
    BY <2>2, <2>3 DEF FilesInv, NothingLeftBehind
<1>11. CASE OpenWorkflow \/ RefreshWorkflow \/ Reopen \/ NoticeChange \/ Validate \/ Preview
            \/ OpenApply \/ OpenDiscard \/ OpenClose \/ Dismiss \/ ConfirmApply \/ ConfirmClose
            \/ SwitchProfile \/ UserHandoff \/ Quit \/ OthersSave \/ Tick \/ UNCHANGED vars
  BY <1>2, <1>3, <1>11 DEF OpenWorkflow, RefreshWorkflow, Reopen, NoticeChange, Validate, Preview, Examine,
     OpenApply, OpenDiscard, OpenClose, Show, Dismiss, ConfirmApply, ConfirmClose, CloseWorkflow, SwitchProfile,
     UserHandoff, Quit, OthersSave, Foreign, Tick, vars, policyVars, KeepFiles
<1>12. ASSUME NEW n \in Requests, Work(n)
       PROVE  FilesInv'
  BY <1>2, <1>12 DEF Work, AnswerFetch, AnswerValidate, AnswerPreview, CompareRemote, Save, ReadAgain, Verify, CannotVerify,
     Becomes, KeepFiles
<1>13. ASSUME NEW s \in Slots, EditorExits(s) \/ Finished(s) \/ UNCHANGED policyVars
       PROVE  FilesInv'
  BY <1>2, <1>3, <1>13 DEF EditorExits, Finished, EditorFinished, CloseWorkflow, policyVars, KeepFiles
<1> QED
  BY <1>7, <1>8, <1>9, <1>10, <1>11, <1>12, <1>13 DEF Next

\* No copy of the policy outlives its workflow, and none is forgotten while it is
\* open: close_policy_workflow, the profile switch and the shutdown remove what
\* the fetches, conflicts and replacements before them left.
THEOREM FilesGoWithWorkflow == Spec => []NothingLeftBehind
<1>1. FilesInv => NothingLeftBehind
  BY DEF FilesInv
<1>2. TypeOK /\ FilesInv /\ [Next]_vars => FilesInv'
  BY FilesStep
<1> QED
  BY <1>1, <1>2, InitFiles, TypeCorrect, PTL DEF Spec

-----------------------------------------------------------------------------
(* The requests *)

LEMMA InitRequests == Init => RequestsInv
BY DEF Init, RequestsInv, Truthful, Quiet, Open

\* What was shown stays shown.
LEMMA ShownStays ==
    ASSUME [Next]_vars
    PROVE  /\ shown \subseteq shown'
           /\ shown' = shown \/ \E n \in Requests : AnswerPreview(n)
<1>1. ASSUME NEW n \in Requests, Work(n)
      PROVE  shown \subseteq shown' /\ (shown' = shown \/ AnswerPreview(n))
  BY <1>1 DEF Work, AnswerFetch, AnswerValidate, AnswerPreview, CompareRemote, Save, ReadAgain, Verify,
     CannotVerify
<1>2. ASSUME NEW n \in Requests, Handle(n)
      PROVE  shown' = shown
  BY <1>2 DEF Handle, RemoteFetched, Validated, PreviewFinished, Applied, Take, Elsewhere
<1>3. CASE OpenWorkflow \/ RefreshWorkflow \/ Reopen \/ NoticeChange \/ Validate \/ Preview
           \/ OpenApply \/ OpenDiscard \/ OpenClose \/ Dismiss \/ ConfirmApply \/ ConfirmClose \/ ConfirmReplace
           \/ SwitchProfile \/ UserHandoff \/ Quit \/ OthersWrite \/ OthersSave \/ Tick \/ UNCHANGED vars
  BY <1>3 DEF OpenWorkflow, RefreshWorkflow, Reopen, NoticeChange, Validate, Preview, Examine,
     OpenApply, OpenDiscard, OpenClose, Show, Dismiss, ConfirmApply, ConfirmClose, ConfirmReplace, SwitchProfile,
     UserHandoff, Quit, OthersWrite, OthersSave, Foreign, Tick, vars, policyVars, Elsewhere
<1>4. ASSUME NEW s \in Slots, EditorSaves(s) \/ EditorExits(s) \/ EditorFinished(s) \/ UNCHANGED policyVars
      PROVE  shown' = shown
  BY <1>4 DEF EditorSaves, EditorExits, EditorFinished, policyVars, Elsewhere
<1> QED
  BY <1>1, <1>2, <1>3, <1>4 DEF Next, Finished

\* The worker's own step: what it says is so.
LEMMA WorkIsTruthful ==
    ASSUME TypeOK, RequestsInv, NEW n \in Requests, Work(n)
    PROVE  \E rec : request' = [request EXCEPT ![n] = rec] /\ Truthful(rec, shown')
<1> DEFINE r == request[n]
<1>1. Truthful(r, shown)
  BY DEF RequestsInv
<1>2. r.kind = "apply" /\ r.step # "answered" =>
        r \in [kind : {"apply"}, id : Nat, path : MaybePaths, base : Docs, doc : Docs, saved : BOOLEAN,
               step : {"asked", "compared", "conflicted", "confirmed", "uncertain"}]
  BY DEF TypeOK, RequestRecords, Quiet
<1>3. ASSUME NEW outcome, r.kind = "apply", r.step # "answered",
             r.saved => outcome \notin {"FailedRetained", "RemoteConflict"}
      PROVE  Truthful(Ended(n, outcome), shown')
  BY <1>3 DEF Truthful, Ended, Answered
<1>4. CASE AnswerFetch(n) \/ AnswerValidate(n)
  <2>1. PICK result : request' = [request EXCEPT ![n] = Answered(n, result)]
    BY <1>4 DEF AnswerFetch, AnswerValidate, Becomes
  <2>2. Truthful(Answered(n, result), shown')
    BY <1>4 DEF AnswerFetch, AnswerValidate, Answered, Truthful
  <2> QED
    BY <2>1, <2>2
<1>5. CASE AnswerPreview(n)
  <2>1. PICK result : /\ request' = [request EXCEPT ![n] = Answered(n, result)]
                      /\ result # Error => result.doc \in shown'
    BY <1>5 DEF AnswerPreview, Becomes
  <2>2. Truthful(Answered(n, result), shown')
    BY <1>5, <2>1 DEF AnswerPreview, Answered, Truthful
  <2> QED
    BY <2>1, <2>2
<1>6. CASE CompareRemote(n)
  <2>1. ~r.saved /\ r.doc \in shown' /\ r.kind = "apply" /\ r.step = "asked"
    BY <1>1, <1>6 DEF CompareRemote, Unfinished, Truthful
  <2>2. Truthful(Conflict(n), shown')
    BY <2>1 DEF Truthful, Conflict, Answered
  <2>3. Truthful([r EXCEPT !.step = "compared"], shown')
    BY <1>2, <2>1 DEF Truthful
  <2> QED
    BY <1>3, <1>6, <2>1, <2>2, <2>3 DEF CompareRemote, Becomes
<1>7. CASE Save(n)
  <2>1. ~r.saved /\ r.kind = "apply" /\ r.step = "compared"
    BY <1>1, <1>7 DEF Save, Unfinished, Truthful
  <2>2. Truthful([r EXCEPT !.step = "conflicted"], shown')
    BY <1>1, <1>2, <1>7, <2>1 DEF Truthful, Save
  <2>3. Truthful([r EXCEPT !.step = "confirmed", !.saved = TRUE], shown')
    BY <1>2, <2>1 DEF Truthful
  <2>4. \A reached : Truthful([[r EXCEPT !.saved = reached] EXCEPT !.step = "uncertain"], shown')
    BY <1>2, <2>1 DEF Truthful
  <2> QED
    BY <1>3, <1>7, <2>1, <2>2, <2>3, <2>4 DEF Save, Becomes, SaveMayHaveReached
<1>8. CASE Verify(n)
  <2>1. r.kind = "apply" /\ r.step \in {"confirmed", "uncertain"}
    BY <1>8 DEF Verify, Unfinished
  <2>2. \A outcome \in {"Succeeded", "SucceededUnverified", "OutcomeUnknown"} : Truthful(Ended(n, outcome), shown')
    BY <1>3, <2>1
  <2> QED
    BY <1>8, <2>2 DEF Verify, Becomes
<1>9. CASE CannotVerify(n)
  BY <1>3, <1>9 DEF CannotVerify, Unfinished, Becomes
<1>10. CASE ReadAgain(n)
  <2>1. ~r.saved /\ r.kind = "apply" /\ r.step = "conflicted"
    BY <1>1, <1>10 DEF ReadAgain, Unfinished, Truthful
  <2>2. Truthful(Conflict(n), shown')
    BY <2>1 DEF Truthful, Conflict, Answered
  <2> QED
    BY <1>3, <1>10, <2>1, <2>2 DEF ReadAgain, Becomes
<1> QED
  BY <1>4, <1>5, <1>6, <1>7, <1>8, <1>9, <1>10 DEF Work

\* A request stays as it was, or what is newly asked or answered is so.
LEMMA RequestStep ==
    ASSUME TypeOK, RequestsInv, [Next]_vars
    PROVE  \A n \in Requests : request'[n] = request[n] \/ Truthful(request'[n], shown')
<1>1. ASSUME NEW rec, Truthful(rec, shown'), Asks(rec)
      PROVE  \A n \in Requests : request'[n] = request[n] \/ Truthful(request'[n], shown')
  BY <1>1 DEF Asks, TypeOK
<1>2. CASE OpenWorkflow \/ RefreshWorkflow
  <2>1. \A id : Truthful(Fetch(id), shown')
    BY DEF Truthful, Fetch
  <2> QED
    BY <1>1, <1>2, <2>1 DEF OpenWorkflow, RefreshWorkflow
<1>3. ASSUME NEW kind \in {"validate", "preview"}, NEW state, Examine(kind, state)
      PROVE  \A n \in Requests : request'[n] = request[n] \/ Truthful(request'[n], shown')
  <2>1. Truthful([kind |-> kind, id |-> wf.id, path |-> wf.path, step |-> "asked"], shown')
    BY DEF Truthful
  <2> QED
    BY <1>1, <1>3, <2>1 DEF Examine
<1>4. CASE ConfirmApply
  <2>1. wf.candidate \in shown'
    BY <1>4 DEF ConfirmApply, ApplyGuard, Previewed, RequestsInv, Elsewhere
  <2>2. Truthful([kind |-> "apply", id |-> wf.id, path |-> wf.path, step |-> "asked",
                  base |-> wf.base, doc |-> wf.candidate, saved |-> FALSE], shown')
    BY <2>1 DEF Truthful
  <2> QED
    BY <1>1, <1>4, <2>2 DEF ConfirmApply
<1>5. Truthful(Quiet, shown')
  BY DEF Truthful, Quiet
<1>6. CASE Quit
  BY <1>5, <1>6 DEF Quit
<1>7. ASSUME NEW n \in Requests, Handle(n)
      PROVE  \A m \in Requests : request'[m] = request[m] \/ Truthful(request'[m], shown')
  BY <1>5, <1>7 DEF Handle, RemoteFetched, Validated, PreviewFinished, Applied, Take, TypeOK
<1>8. ASSUME NEW n \in Requests, Work(n)
      PROVE  \A m \in Requests : request'[m] = request[m] \/ Truthful(request'[m], shown')
  BY <1>8, WorkIsTruthful DEF TypeOK
<1>9. CASE Reopen \/ NoticeChange \/ OpenApply \/ OpenDiscard \/ OpenClose \/ Dismiss \/ ConfirmClose
           \/ ConfirmReplace \/ SwitchProfile \/ UserHandoff \/ OthersWrite \/ OthersSave \/ Tick \/ UNCHANGED vars
  BY <1>9 DEF Reopen, NoticeChange, OpenApply, OpenDiscard, OpenClose, Show, Dismiss, ConfirmClose, ConfirmReplace,
     SwitchProfile, UserHandoff, OthersWrite, OthersSave, Foreign, Tick, vars, policyVars
<1>10. ASSUME NEW s \in Slots, EditorSaves(s) \/ EditorExits(s) \/ EditorFinished(s) \/ UNCHANGED policyVars
       PROVE  request' = request
  BY <1>10 DEF EditorSaves, EditorExits, EditorFinished, policyVars
<1> QED
  BY <1>2, <1>3, <1>4, <1>6, <1>7, <1>8, <1>9, <1>10 DEF Next, Validate, Preview, Finished

LEMMA RequestsStep ==
    ASSUME TypeOK, RequestsInv, [Next]_vars
    PROVE  RequestsInv'
<1>1. shown \subseteq shown'
  BY ShownStays
<1>2. \A n \in Requests : Truthful(request[n], shown')
  BY <1>1 DEF RequestsInv, Truthful
<1>3. \A n \in Requests : Truthful(request'[n], shown')
  BY <1>2, RequestStep
<1>4. Open' /\ wf'.preview # None => wf'.preview \in shown'
  <2>1. ASSUME NEW n \in Requests, PreviewFinished(n), request[n].result # Error
        PROVE  request[n].result.doc \in shown
    BY <2>1 DEF PreviewFinished, Take, RequestsInv, Truthful
  <2> QED
    BY <1>1, <2>1, WorkflowStep DEF RequestsInv, Open
<1> QED
  BY <1>3, <1>4 DEF RequestsInv

LEMMA RequestsCorrect == Spec => []RequestsInv
<1>1. TypeOK /\ RequestsInv /\ [Next]_vars => RequestsInv'
  BY RequestsStep
<1> QED
  BY <1>1, InitRequests, TypeCorrect, PTL DEF Spec

\* An application that reports a failure or a conflict has changed nothing: what
\* may have reached the server is told as such, by save and by what follows it.
THEOREM FailureIsUnsaved == Spec => []FailureMeansUnsaved
<1>1. RequestsInv => FailureMeansUnsaved
  BY DEF RequestsInv, Truthful, FailureMeansUnsaved
<1> QED
  BY <1>1, RequestsCorrect, PTL

\* A save writes a document whose preview the server has answered, over the
\* policy that the draft was made from, whatever others save meanwhile.
THEOREM ReviewedIsSaved == Spec => SavesReviewedDraft
<1> DEFINE Reviewed == \A n \in Requests :
              Unfinished(n, "compared") /\ request'[n] # request[n] /\ remote' # remote
                => request[n].doc \in shown /\ remote = request[n].base
<1>1. ASSUME TypeOK, RequestsInv, [Next]_vars
      PROVE  Reviewed
  <2> SUFFICES ASSUME NEW n \in Requests, Unfinished(n, "compared"), request'[n] # request[n], remote' # remote
               PROVE  request[n].doc \in shown /\ remote = request[n].base
    OBVIOUS
  <2>1. request[n].doc \in shown
    BY <1>1 DEF RequestsInv, Truthful, Unfinished
  <2>2. PICK m \in Requests : Save(m)
    <3>1. CASE \E m \in Requests : Work(m)
      BY <3>1 DEF Work, AnswerFetch, AnswerValidate, AnswerPreview, CompareRemote, ReadAgain, Verify, CannotVerify, Becomes
    <3>2. CASE \E m \in Requests : Handle(m)
      BY <3>2 DEF Handle, RemoteFetched, Validated, PreviewFinished, Applied, Take, Elsewhere
    <3>3. CASE OpenWorkflow \/ RefreshWorkflow \/ Reopen \/ NoticeChange \/ Validate \/ Preview
               \/ OpenApply \/ OpenDiscard \/ OpenClose \/ Dismiss \/ ConfirmApply \/ ConfirmClose \/ ConfirmReplace
               \/ SwitchProfile \/ UserHandoff \/ Quit \/ OthersWrite \/ OthersSave \/ Tick \/ UNCHANGED vars
      BY <3>3 DEF OpenWorkflow, RefreshWorkflow, Reopen, NoticeChange, Validate, Preview, Examine,
         OpenApply, OpenDiscard, OpenClose, Show, Dismiss, ConfirmApply, ConfirmClose, ConfirmReplace, SwitchProfile,
         UserHandoff, Quit, OthersWrite, OthersSave, Foreign, Tick, vars, policyVars, Elsewhere
    <3>4. CASE \E s \in Slots : EditorSaves(s) \/ EditorExits(s) \/ EditorFinished(s) \/ UNCHANGED policyVars
      BY <3>4 DEF EditorSaves, EditorExits, EditorFinished, policyVars, Elsewhere
    <3> QED
      BY <1>1, <3>1, <3>2, <3>3, <3>4 DEF Next, Finished
  <2>3. m = n
    BY <1>1, <2>2 DEF Save, Becomes, TypeOK
  <2> QED
    BY <2>1, <2>2, <2>3 DEF Save, TagHolds
<1>2. TypeOK /\ RequestsInv /\ [Next]_vars => [Reviewed]_vars
  BY <1>1
<1> QED
  BY <1>2, TypeCorrect, RequestsCorrect, PTL DEF Spec, SavesReviewedDraft
=============================================================================
