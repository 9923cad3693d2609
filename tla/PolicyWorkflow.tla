--------------------------- MODULE PolicyWorkflow ---------------------------
(***************************************************************************)
(* Editing the tailnet policy: the workflow from the first read of the     *)
(* remote policy to its save, its temporary files, the external editor     *)
(* that owns the terminal meanwhile, the requests that validate, preview   *)
(* and apply the draft, and the remote policy that others change too.      *)
(* A document stands for its bytes and for their hash.                     *)
(***************************************************************************)
EXTENDS TerminalHandoff

CONSTANTS Docs,        \* policy documents
          Unreadable,  \* what cannot be read as a document: too large, a link, not UTF-8
          Paths,       \* bound: temporary files at a time
          Requests,    \* bound: requests at a time
          Original,    \* the tailnet's policy at first
          MaxApplyAge  \* MAX_APPLY_AGE

ASSUME PolicyAssumption ==
    /\ Unreadable \notin Docs
    /\ Paths \subseteq Nat \ {0}
    /\ Original \in Docs
    /\ MaxApplyAge \in Nat
    \* workflows opened, requests made, changes made by others and of what ("race": of
    \* the policy, while an application is under way), and the clock
    /\ \A b \in Bounds : {b.workflows, b.requests, b.foreign, b.now} \subseteq Nat
                        /\ b.others \subseteq {"draft", "policy", "race"}

VARIABLES wf,          \* App.policy_workflow, or NoWorkflow
          opened,      \* App.next_policy_workflow_id - 1
          temp,        \* App.policy_temp_file: its path, or NoPath
          latest,      \* App.latest_policy_temp_file: its path, or NoPath
          files,       \* the temporary files that exist: their content (external)
          request,     \* the requests under way and their answers
          asked,       \* requests made so far
          overlay,     \* the confirmation on top, or "none"
          now,         \* the clock
          remote,      \* the tailnet's policy (external)
          foreign,     \* changes others have made so far
          shown        \* history: documents whose preview the server has answered

policyVars == <<wf, opened, temp, latest, files, request, asked, overlay, now, remote, foreign, shown>>
vars == <<terminalVars, policyVars>>

None    == "none"
NoPath  == 0
NoWorkflow == [id |-> 0, state |-> "Closed"]
Gone    == "gone"

States == {"Opening", "EditingExternally", "CandidateReady", "RemoteConflict", "Validating",
           "Invalid", "Previewing", "ReadyToApply", "Applying", "Succeeded",
           "SucceededUnverified", "FailedRetained", "OutcomeUnknown"}

Unvalidated == [doc |-> None, valid |-> FALSE, at |-> 0]

\* PolicyWorkflow::opening.
Opening(n) == [id |-> n, state |-> "Opening", base |-> None, candidate |-> None, seen |-> 0,
               newest |-> None, path |-> NoPath, validation |-> Unvalidated, preview |-> None]

Open == wf # NoWorkflow
Quiet == [kind |-> "none", id |-> 0]
Pending(n) == request[n] # Quiet

Init ==
    /\ TerminalInit
    /\ wf = NoWorkflow
    /\ opened = 0
    /\ temp = NoPath
    /\ latest = NoPath
    /\ files = [p \in Paths |-> Gone]
    /\ request = [n \in Requests |-> Quiet]
    /\ asked = 0
    /\ overlay = "none"
    /\ now = 0
    /\ remote = Original
    /\ foreign = 0
    /\ shown = {}

-----------------------------------------------------------------------------
(* PolicyWorkflow *)

Conflicting(w) == w.newest # None /\ w.base # None /\ w.newest # w.base
Passed(w)      == w.validation.valid
Previewed(w)   == w.preview # None /\ w.preview = w.candidate

SetBase(w, doc) ==
    [Opening(w.id) EXCEPT !.base = doc, !.state = "EditingExternally"]

SetCandidate(w, doc, at, path) ==
    [w EXCEPT !.candidate = doc, !.seen = at, !.path = path, !.validation = Unvalidated, !.preview = None,
              !.state = IF Conflicting(w) THEN "RemoteConflict" ELSE "CandidateReady"]

\* The state a bound validation leaves the workflow in.
Judged(w) ==
    IF ~Passed(w) THEN "Invalid"
    ELSE IF Previewed(w) THEN "ReadyToApply"
    ELSE "CandidateReady"

\* Mutant: the latest policy does not disturb an application.
SetLatestRemote_UnlessApplying(w, doc) ==
    LET conflict == w.candidate # None /\ w.base # None /\ doc # w.base IN
    [w EXCEPT !.newest = doc,
              !.state = IF conflict /\ @ # "Applying" THEN "RemoteConflict" ELSE @]

SetLatestRemote(w, doc) ==
    LET conflict == w.candidate # None /\ w.base # None /\ doc # w.base IN
    [w EXCEPT !.newest = doc,
              !.state = CASE conflict -> "RemoteConflict"
                          [] ~conflict /\ w.state = "RemoteConflict" ->
                                 IF w.validation = Unvalidated THEN "CandidateReady" ELSE Judged(w)
                          [] OTHER -> w.state]

\* A result for other bytes than the candidate's is dropped, state included.
SetValidation(w, v) ==
    IF v.doc # w.candidate THEN w
    ELSE LET judged == [w EXCEPT !.validation = v] IN
         [judged EXCEPT !.state = IF Conflicting(w) THEN "RemoteConflict" ELSE Judged(judged)]

SetPreview(w, doc) ==
    IF doc # w.candidate THEN w
    ELSE [w EXCEPT !.preview = doc,
                   !.state = IF ~Passed(w) THEN "Invalid"
                             ELSE IF Conflicting(w) THEN "RemoteConflict"
                             ELSE "ReadyToApply"]

Fresh(at) == now - at <= MaxApplyAge

ApplyGuard(w) ==
    /\ w.state = "ReadyToApply"
    /\ w.base # None /\ w.candidate # None
    /\ Fresh(w.seen)
    /\ ~Conflicting(w)
    /\ Passed(w) /\ w.validation.doc = w.candidate /\ Fresh(w.validation.at)
    /\ Previewed(w)

-----------------------------------------------------------------------------
(* TemporaryPolicyFile *)

\* Nothing that may still be read or written is at this path.
Unused(p) ==
    /\ files[p] = Gone
    /\ p \notin {temp, latest} /\ (Open => wf.path # p)
    /\ \A s \in Slots : child[s].kind = "editor" => child[s].path # p
    /\ \A n \in Requests :
          request[n].kind \in {"validate", "preview", "apply"} /\ request[n].step # "answered"
            => request[n].path # p

\* The name of a new file: which one does not matter.
NewPath == CHOOSE p \in Paths : Unused(p)
CanCreate == \E p \in Paths : Unused(p)

Removed(fs, paths) == [p \in Paths |-> IF p \in paths THEN Gone ELSE fs[p]]
Readable(p) == p # NoPath /\ files[p] \in Docs

-----------------------------------------------------------------------------
(* What the user does *)

Asks(rec) ==
    /\ asked < bound.requests /\ asked' = asked + 1
    /\ \E n \in Requests : ~Pending(n)
    /\ request' = [request EXCEPT ![CHOOSE n \in Requests : ~Pending(n)] = rec]

\* No answer has come yet.
Fetch(id) == [kind |-> "fetch", id |-> id, step |-> "asked"]

\* A key that is not for a confirmation.
Chooses == UserActs /\ overlay = "none"

\* The world outside App and the run loop.
Elsewhere == UNCHANGED <<now, remote, foreign, shown>>

OpenWorkflow ==
    /\ Chooses /\ ~Open /\ opened < bound.workflows
    /\ opened' = opened + 1
    /\ wf' = Opening(opened + 1)
    /\ Asks(Fetch(opened + 1))
    /\ UNCHANGED <<terminalVars, temp, latest, files, overlay>> /\ Elsewhere

RefreshWorkflow ==
    /\ Chooses /\ Open
    /\ Asks(Fetch(wf.id))
    /\ UNCHANGED <<terminalVars, wf, opened, temp, latest, files, overlay>> /\ Elsewhere

\* start_policy_editor on the workflow w.
StartEditor(w) ==
    /\ wf' = [w EXCEPT !.state = IF w.candidate = None THEN @ ELSE "EditingExternally"]
    /\ active' = TRUE
    /\ Start([kind |-> "editor", status |-> "running", id |-> w.id, path |-> w.path])
    /\ UNCHANGED <<phase, bound, handoffs>>

Reopen ==
    /\ Chooses /\ Open
    /\ wf.state # "Opening" /\ wf.path # NoPath
    /\ StartEditor(wf)
    /\ UNCHANGED <<opened, temp, latest, files, request, asked, overlay>> /\ Elsewhere

\* sync_policy_candidate_file, which validating, previewing, comparing and
\* applying begin with: they go no further when the file is not the candidate.
Synced(w) == w.candidate # None /\ w.path # NoPath => files[w.path] = w.candidate

Resync(w) ==
    IF Readable(w.path) THEN SetCandidate(w, files[w.path], now, w.path)
                        ELSE [w EXCEPT !.state = "FailedRetained"]

NoticeChange ==
    /\ UserActs /\ overlay \in {"none", "apply"}
    /\ Open /\ ~Synced(wf)
    /\ wf' = Resync(wf)
    /\ UNCHANGED <<terminalVars, opened, temp, latest, files, request, asked, overlay>> /\ Elsewhere

Examine(kind, state) ==
    /\ Chooses /\ Open
    /\ Synced(wf) /\ wf.path # NoPath
    /\ wf' = [wf EXCEPT !.state = state]
    /\ Asks([kind |-> kind, id |-> wf.id, path |-> wf.path, step |-> "asked"])
    /\ UNCHANGED <<terminalVars, opened, temp, latest, files, overlay>> /\ Elsewhere

Validate == Examine("validate", "Validating")
Preview  == Examine("preview", "Previewing")

Show(confirmation) ==
    /\ Chooses /\ Open
    /\ overlay' = confirmation
    /\ UNCHANGED <<terminalVars, wf, opened, temp, latest, files, request, asked>> /\ Elsewhere

OpenApply   == Show("apply") /\ Synced(wf) /\ ApplyGuard(wf)
OpenDiscard == Open /\ Show(IF wf.newest # None /\ wf.state = "RemoteConflict" THEN "replace"
                                                                              ELSE "close")
OpenClose   == Show("close")

Dismiss ==
    /\ UserActs /\ overlay # "none"
    /\ overlay' = "none"
    /\ UNCHANGED <<terminalVars, wf, opened, temp, latest, files, request, asked>> /\ Elsewhere

\* Where the workflow is gone or the guard fails the confirmation stays open.
ConfirmApply ==
    /\ UserActs /\ overlay = "apply"
    /\ Open /\ Synced(wf) /\ ApplyGuard(wf)
    /\ wf' = [wf EXCEPT !.state = "Applying"]
    /\ overlay' = "none"
    /\ Asks([kind |-> "apply", id |-> wf.id, path |-> wf.path, step |-> "asked",
             base |-> wf.base, doc |-> wf.candidate, saved |-> FALSE])
    /\ UNCHANGED <<terminalVars, opened, temp, latest, files>> /\ Elsewhere

\* Mutant: the copy of the latest policy is forgotten.
CloseFiles_KeepsLatest ==
    /\ files' = Removed(files, {temp})
    /\ temp' = NoPath /\ latest' = NoPath

\* close_policy_workflow, and the same closing in switch_profile and request_shutdown.
CloseFiles ==
    /\ files' = Removed(files, {temp, latest})
    /\ temp' = NoPath /\ latest' = NoPath

CloseWorkflow == wf' = NoWorkflow /\ CloseFiles

ConfirmClose ==
    /\ UserActs /\ overlay = "close"
    /\ overlay' = "none"
    /\ CloseWorkflow
    /\ UNCHANGED <<terminalVars, opened, request, asked>> /\ Elsewhere

\* replace_policy_candidate_with_latest; creating the file may fail.
ConfirmReplace ==
    /\ UserActs /\ overlay = "replace"
    /\ overlay' = "none"
    /\ \/ /\ ~(Open /\ wf.newest # None)
          /\ UNCHANGED <<wf, temp, latest, files>>
       \/ /\ Open /\ wf.newest # None
          /\ temp' = NoPath
          /\ files' = Removed(files, {temp})
          /\ UNCHANGED <<wf, latest>>
       \/ /\ Open /\ wf.newest # None
          /\ CanCreate
          /\ temp' = NewPath
          /\ files' = [Removed(files, {temp, latest}) EXCEPT ![NewPath] = wf.newest]
          /\ wf' = SetCandidate(SetBase(wf, wf.newest), wf.newest, now, NewPath)
          /\ latest' = NoPath
    /\ UNCHANGED <<terminalVars, opened, request, asked>> /\ Elsewhere

\* finish_profile_probe: when the probe answers, whatever is open then; refused
\* while the workflow says it is applying.
SwitchProfile ==
    /\ phase # "stopped"
    /\ Open /\ wf.state # "Applying"
    /\ CloseWorkflow
    /\ UNCHANGED <<terminalVars, opened, request, asked, overlay>> /\ Elsewhere

UserHandoff ==
    /\ overlay = "none"
    /\ OpenHandoff
    /\ UNCHANGED policyVars

Quit ==
    /\ phase # "stopped"
    /\ Stop
    /\ CloseWorkflow
    /\ overlay' = "none"
    /\ request' = [n \in Requests |-> Quiet]
    /\ UNCHANGED <<opened, asked>> /\ Elsewhere

-----------------------------------------------------------------------------
(* The requests: run_policy_remote_fetch and the other run_policy workers *)

\* The request n goes on, or is answered: update will hear of it.
Becomes(n, rec) ==
    /\ request' = [request EXCEPT ![n] = rec]
    /\ UNCHANGED <<terminalVars, wf, opened, temp, latest, files, asked, overlay, now, foreign>>

Answered(n, result) == [kind |-> request[n].kind, id |-> request[n].id, step |-> "answered",
                        result |-> result]
Error == [error |-> TRUE]

AnswerFetch(n) ==
    /\ request[n].kind = "fetch" /\ request[n].step = "asked"
    /\ \/ Becomes(n, Answered(n, [doc |-> remote]))
       \/ Becomes(n, Answered(n, Error))
    /\ UNCHANGED <<remote, shown>>

\* The bytes sent are the file's; the result is bound to their hash.
AnswerValidate(n) ==
    /\ request[n].kind = "validate" /\ request[n].step = "asked"
    /\ \/ /\ Readable(request[n].path)
          /\ \E ok \in BOOLEAN :
                Becomes(n, Answered(n, [doc |-> files[request[n].path], valid |-> ok, at |-> now]))
       \/ Becomes(n, Answered(n, Error))
    /\ UNCHANGED <<remote, shown>>

AnswerPreview(n) ==
    /\ request[n].kind = "preview" /\ request[n].step = "asked"
    /\ \/ /\ Readable(request[n].path)
          /\ Becomes(n, Answered(n, [doc |-> files[request[n].path]]))
          /\ shown' = shown \cup {files[request[n].path]}
       \/ Becomes(n, Answered(n, Error)) /\ UNCHANGED shown
    /\ UNCHANGED remote

\* apply_policy_remote, up to the comparison of the latest policy with the base;
\* the file is read once, before it.
Ended(n, outcome) == Answered(n, [outcome |-> outcome, saved |-> request[n].saved])
Conflict(n)       == Answered(n, [outcome |-> "RemoteConflict", doc |-> remote,
                                  saved |-> request[n].saved])

Unfinished(n, step) == request[n].kind = "apply" /\ request[n].step = step

CompareRemote(n) ==
    /\ Unfinished(n, "asked")
    /\ \/ Becomes(n, Ended(n, "FailedRetained"))
       \/ /\ Readable(request[n].path) /\ files[request[n].path] = request[n].doc
          /\ \/ remote # request[n].base /\ Becomes(n, Conflict(n))
             \/ remote = request[n].base /\ Becomes(n, [request[n] EXCEPT !.step = "compared"])
    /\ UNCHANGED <<remote, shown>>

\* Mutant: the save names no ETag.
TagHolds_Always(n) == TRUE

\* The server takes the save only while its ETag is still the one that was read.
TagHolds(n) == remote = request[n].base

\* Mutant: an error of the save is a failure.
SaveMayHaveReached_Never(error) == FALSE

\* Errors after which the policy may have been saved; save_confirmed otherwise.
SaveMayHaveReached(error) == error = "ambiguous"

\* The last validation and the one save request.
Save(n) ==
    /\ Unfinished(n, "compared")
    /\ UNCHANGED shown
    /\ \/ \* the validation fails, or the save is refused for good
          UNCHANGED remote /\ Becomes(n, Ended(n, "FailedRetained"))
       \/ \* 409, 412
          /\ ~TagHolds(n)
          /\ UNCHANGED remote
          /\ Becomes(n, [request[n] EXCEPT !.step = "conflicted"])
       \/ /\ TagHolds(n)
          /\ remote' = request[n].doc
          /\ Becomes(n, [request[n] EXCEPT !.step = "confirmed", !.saved = TRUE])
       \/ \E reached \in {FALSE, TagHolds(n)} :
             LET sent == [request[n] EXCEPT !.saved = reached] IN
             /\ remote' = IF reached THEN request[n].doc ELSE remote
             /\ Becomes(n, IF SaveMayHaveReached("ambiguous")
                           THEN [sent EXCEPT !.step = "uncertain"]
                           ELSE [Ended(n, "FailedRetained") EXCEPT !.result.saved = reached])

\* After a refusal for the ETag the policy is read once more: by then it may be
\* any, the base as well.
ReadAgain(n) ==
    /\ Unfinished(n, "conflicted")
    /\ Becomes(n, Conflict(n)) \/ Becomes(n, Ended(n, "FailedRetained"))
    /\ UNCHANGED <<remote, shown>>

\* verify_saved_policy
Verify(n) ==
    /\ Unfinished(n, "confirmed") \/ Unfinished(n, "uncertain")
    /\ Becomes(n, Ended(n, IF remote = request[n].doc THEN "Succeeded"
                           ELSE IF request[n].step = "confirmed" THEN "SucceededUnverified"
                           ELSE "OutcomeUnknown"))
    /\ UNCHANGED <<remote, shown>>

CannotVerify(n) ==
    /\ Unfinished(n, "confirmed") \/ Unfinished(n, "uncertain")
    /\ Becomes(n, Ended(n, "OutcomeUnknown"))
    /\ UNCHANGED <<remote, shown>>

Work(n) ==
    \/ AnswerFetch(n) \/ AnswerValidate(n) \/ AnswerPreview(n)
    \/ CompareRemote(n) \/ Save(n) \/ ReadAgain(n) \/ Verify(n) \/ CannotVerify(n)

-----------------------------------------------------------------------------
(* update_policy *)

Take(n, kind) ==
    /\ phase # "stopped"
    /\ request[n].kind = kind /\ request[n].step = "answered"
    /\ request' = [request EXCEPT ![n] = Quiet]
    /\ UNCHANGED <<opened, asked, overlay>> /\ Elsewhere

\* Is the answer for the workflow that is open?
Ours(id) == Open /\ wf.id = id

KeepFiles == UNCHANGED <<temp, latest, files>>

\* A new temporary file for the latest remote policy, which only the user reads;
\* creating it may fail.
KeepLatest ==
    /\ CanCreate
    /\ latest' = NewPath
    /\ files' = [Removed(files, {latest}) EXCEPT ![NewPath] = "copy"]
    /\ UNCHANGED temp

DropLatest == latest' = NoPath /\ files' = Removed(files, {latest}) /\ UNCHANGED temp

\* The remote policy becomes the base and the candidate, in a new file.
TakeRemote(doc) ==
    /\ CanCreate
    /\ temp' = NewPath /\ latest' = NoPath
    /\ files' = [Removed(files, {temp, latest}) EXCEPT ![NewPath] = doc]
    /\ LET w == SetCandidate(SetBase(wf, doc), doc, now, NewPath) IN
       IF wf.state = "Opening" THEN StartEditor(w)
                               ELSE wf' = w /\ UNCHANGED terminalVars

NotTaken ==
    /\ wf' = [wf EXCEPT !.state = "FailedRetained"]
    /\ CloseFiles
    /\ UNCHANGED terminalVars

RemoteFetched(n) ==
    /\ Take(n, "fetch")
    /\ LET result  == request[n].result
           changed == wf.candidate # None /\ wf.base # None /\ result.doc # wf.base
           edited  == wf.candidate # None /\ wf.base # None /\ wf.candidate # wf.base
       IN \/ ~Ours(request[n].id) /\ UNCHANGED <<terminalVars, wf>> /\ KeepFiles
          \/ /\ Ours(request[n].id) /\ result = Error
             /\ wf' = [wf EXCEPT !.state = "FailedRetained"]
             /\ KeepFiles /\ UNCHANGED terminalVars
          \/ /\ Ours(request[n].id) /\ result # Error /\ changed
             /\ \/ KeepLatest /\ wf' = SetLatestRemote(wf, result.doc)
                \/ DropLatest /\ UNCHANGED wf
             /\ UNCHANGED terminalVars
          \/ /\ Ours(request[n].id) /\ result # Error /\ ~changed /\ edited
             /\ DropLatest
             /\ wf' = SetLatestRemote(wf, result.doc)
             /\ UNCHANGED terminalVars
          \/ /\ Ours(request[n].id) /\ result # Error /\ ~changed /\ ~edited
             /\ TakeRemote(result.doc) \/ NotTaken

\* A result for other bytes is dropped; an error is not.
Validated(n) ==
    /\ Take(n, "validate")
    /\ wf' = IF ~Ours(request[n].id) THEN wf
             ELSE IF request[n].result = Error THEN [wf EXCEPT !.state = "FailedRetained"]
             ELSE SetValidation(wf, request[n].result)
    /\ KeepFiles /\ UNCHANGED terminalVars

PreviewFinished(n) ==
    /\ Take(n, "preview")
    /\ wf' = IF ~Ours(request[n].id) THEN wf
             ELSE IF request[n].result = Error THEN [wf EXCEPT !.state = "FailedRetained"]
             ELSE SetPreview(wf, request[n].result.doc)
    /\ KeepFiles /\ UNCHANGED terminalVars

Applied(n) ==
    /\ Take(n, "apply")
    /\ LET result == request[n].result IN
       \/ ~Ours(request[n].id) /\ UNCHANGED wf /\ KeepFiles
       \/ /\ Ours(request[n].id) /\ result.outcome = "RemoteConflict"
          /\ KeepLatest \/ DropLatest
          /\ wf' = SetLatestRemote(wf, result.doc)
       \/ /\ Ours(request[n].id) /\ result.outcome # "RemoteConflict"
          /\ wf' = [wf EXCEPT !.state = result.outcome]
          /\ KeepFiles
    /\ UNCHANGED terminalVars

-----------------------------------------------------------------------------
(* The external editor, and others who write the file or the policy *)

EditorExits(s) ==
    /\ phase # "stopped"
    /\ child[s].kind = "editor" /\ child[s].status = "running"
    /\ \E result \in {files[child[s].path], Unreadable} :
          child' = [child EXCEPT ![s] = [kind |-> "editor", id |-> @.id, path |-> @.path,
                                         status |-> "ended", result |-> result]]
    /\ UNCHANGED <<held, acquired, suspended, gate, active, phase, bound, handoffs, faults, refused, policyVars>>

\* An unchanged document closes the workflow; an unreadable one puts the base back.
EditorFinished(s) ==
    /\ phase # "stopped"
    /\ child[s].kind = "editor"
    /\ GiveBack(s)
    /\ LET c      == child[s]
           result == IF c.status = "ended" THEN c.result ELSE Unreadable
       IN \/ ~Ours(c.id) /\ UNCHANGED wf /\ KeepFiles
          \/ Ours(c.id) /\ result \in Docs /\ result = wf.base /\ CloseWorkflow
          \/ /\ Ours(c.id) /\ result \in Docs /\ result # wf.base
             /\ wf' = SetCandidate(wf, result, now, c.path)
             /\ KeepFiles
          \/ /\ Ours(c.id) /\ result \notin Docs
             /\ wf' = LET back == IF wf.base = None THEN wf
                                  ELSE SetCandidate(wf, wf.base, now, c.path)
                      IN [back EXCEPT !.state = "FailedRetained"]
             /\ KeepFiles
    /\ UNCHANGED <<opened, request, asked, overlay>> /\ Elsewhere

\* The editor saves what the user wrote to the file it was given.
EditorSaves(s) ==
    /\ child[s].kind = "editor" /\ child[s].status = "running"
    /\ files[child[s].path] # Gone
    /\ \E doc \in Docs : files' = [files EXCEPT ![child[s].path] = doc]
    /\ UNCHANGED <<terminalVars, wf, opened, temp, latest, request, asked, overlay>> /\ Elsewhere

Foreign ==
    /\ phase # "stopped"
    /\ foreign < bound.foreign /\ foreign' = foreign + 1
    /\ UNCHANGED <<terminalVars, wf, opened, temp, latest, request, asked, overlay, now, shown>>

\* Another program writes the draft.
OthersWrite ==
    /\ "draft" \in bound.others
    /\ temp # NoPath
    /\ \E content \in Docs \cup {Unreadable} : files' = [files EXCEPT ![temp] = content]
    /\ UNCHANGED remote
    /\ Foreign

\* Another administrator saves a policy.
OthersSave ==
    /\ \/ "policy" \in bound.others
       \/ "race" \in bound.others /\ \E n \in Requests, step \in {"asked", "compared", "conflicted"} :
                                        Unfinished(n, step)
    /\ \E doc \in Docs \ {remote} : remote' = doc
    /\ UNCHANGED files
    /\ Foreign

Tick ==
    /\ phase # "stopped" /\ now < bound.now
    /\ now' = now + 1
    /\ UNCHANGED <<terminalVars, wf, opened, temp, latest, files, request, asked, overlay, remote,
                   foreign, shown>>

Finished(s) == EditorFinished(s) \/ (HandoffFinished(s) /\ UNCHANGED policyVars)

-----------------------------------------------------------------------------

Handle(n) == RemoteFetched(n) \/ Validated(n) \/ PreviewFinished(n) \/ Applied(n)

Next ==
    \/ OpenWorkflow \/ RefreshWorkflow \/ Reopen \/ NoticeChange \/ Validate \/ Preview
    \/ OpenApply \/ OpenDiscard \/ OpenClose \/ Dismiss
    \/ ConfirmApply \/ ConfirmClose \/ ConfirmReplace
    \/ SwitchProfile \/ UserHandoff \/ Quit
    \/ \E n \in Requests : Work(n) \/ Handle(n)
    \/ \E s \in Slots : EditorSaves(s) \/ EditorExits(s) \/ (HandoffExits(s) /\ UNCHANGED policyVars) \/ Finished(s)
    \/ OthersWrite \/ OthersSave \/ Tick

Spec == Init /\ [][Next]_vars

\* Requests have a timeout and the run loop handles what they send; a failed
\* resumption asks for the shutdown.  Children and users take the time they like.
Heard(n) == Pending(n) /\ request[n].step = "answered" /\ request' = [request EXCEPT ![n] = Quiet]
Seen(s)  == child[s].status \in {"ended", "refused"} /\ child' = [child EXCEPT ![s] = Idle]

Fairness ==
    /\ WF_request(\E n \in Requests : Work(n))
    /\ WF_request(phase # "stopped" /\ \E n \in Requests : Heard(n))
    /\ WF_child(phase # "stopped" /\ \E s \in Slots : Seen(s))
    /\ WF_phase(phase = "failing" /\ phase' = "stopped")

FairSpec == Spec /\ Fairness

-----------------------------------------------------------------------------
(* Properties *)

Contents == Docs \cup {Unreadable, Gone, "copy"}
MaybeDocs  == Docs \cup {None}
MaybePaths == Paths \cup {NoPath}

ChildRecords ==
    {Idle} \cup [kind : {"handoff"}, status : {"running", "ended", "refused"}]
           \cup [kind : {"editor"}, status : {"running", "refused"}, id : Nat, path : Paths]
           \cup [kind : {"editor"}, status : {"ended"}, id : Nat, path : Paths, result : Contents]

Verdicts  == [doc : MaybeDocs, valid : BOOLEAN, at : Nat]
Workflows == [id : Nat, state : States, base : MaybeDocs, candidate : MaybeDocs, seen : Nat, newest : MaybeDocs,
              path : MaybePaths, validation : Verdicts, preview : MaybeDocs]

Outcomes ==
    [outcome : {"Succeeded", "SucceededUnverified", "FailedRetained", "OutcomeUnknown"}, saved : BOOLEAN]
    \cup [outcome : {"RemoteConflict"}, doc : Docs, saved : BOOLEAN]

RequestRecords ==
    {Quiet} \cup [kind : {"fetch"}, id : Nat, step : {"asked"}]
            \cup [kind : {"validate", "preview"}, id : Nat, path : Paths, step : {"asked"}]
            \cup [kind : {"apply"}, id : Nat, path : MaybePaths, step : {"asked", "compared", "conflicted", "confirmed", "uncertain"},
                  base : Docs, doc : Docs, saved : BOOLEAN]
            \cup [kind : {"fetch", "preview"}, id : Nat, step : {"answered"}, result : {Error} \cup [doc : Docs]]
            \cup [kind : {"validate"}, id : Nat, step : {"answered"}, result : {Error} \cup [doc : Docs, valid : BOOLEAN, at : Nat]]
            \cup [kind : {"apply"}, id : Nat, step : {"answered"}, result : Outcomes]

TypeOK ==
    /\ child \in [Slots -> ChildRecords]
    /\ wf \in Workflows \cup {NoWorkflow}
    /\ {temp, latest} \subseteq MaybePaths
    /\ files \in [Paths -> Contents]
    /\ request \in [Requests -> RequestRecords]
    /\ remote \in Docs
    /\ now \in Nat /\ opened \in Nat

\* What Tale writes to the tailnet was shown before, and replaces the policy
\* the draft was made from: nobody else's change is overwritten.
SavesReviewedDraft ==
    [][\A n \in Requests :
           Unfinished(n, "compared") /\ request'[n] # request[n] /\ remote' # remote
             => request[n].doc \in shown /\ remote = request[n].base]_vars

\* An application that reports a failure or a conflict has changed nothing.
FailureMeansUnsaved ==
    \A n \in Requests :
        request[n].kind = "apply" /\ request[n].step = "answered"
            /\ request[n].result.outcome \in {"FailedRetained", "RemoteConflict"}
        => ~request[n].result.saved

\* No copy of the policy outlives its workflow or is forgotten while it is open.
NothingLeftBehind ==
    /\ ~Open => \A p \in Paths : files[p] = Gone
    /\ \A p \in Paths : files[p] # Gone => p \in {temp, latest}

\* What an answer leaves when a save was refused for the ETag and the policy
\* read after it is the base again, another administrator having put it back:
\* set_latest_remote_with_path sees no conflict, the state stays Applying with
\* no application under way, and every switch of profile is refused until the
\* user edits, validates, refreshes or closes.
LeftApplying ==
    /\ wf.newest = wf.base
    /\ \A n \in Requests : request[n].kind = "apply" => request[n].id # wf.id

\* A workflow does not stay in an application: it is answered, and its answer
\* moves the workflow on, except where the save met a change that was taken
\* back before the policy was read again.
RequestsEnd ==
    Open /\ wf.state = "Applying" ~> ~(Open /\ wf.state = "Applying") \/ LeftApplying
=============================================================================
