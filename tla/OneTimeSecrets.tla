--------------------------- MODULE OneTimeSecrets ---------------------------
(***************************************************************************)
(* The changes of a tailnet that are not in the task list: auth keys,      *)
(* webhooks and settings, revocations.  Each is reviewed in an overlay,    *)
(* sent once by a worker of its own, read back, and answered to a reducer  *)
(* that may by then hold another generation. The secret of a new key or   *)
(* webhook comes in one answer only and is shown in an overlay of its own. *)
(***************************************************************************)
EXTENDS Integers, Sequences, FiniteSets

CONSTANTS Credentials,    \* credentials of the tailnet
          Errands,        \* bound: workers started
          SecretBounds    \* what may happen: [kinds, refreshes, faults, connects]

Nil == 0     \* no errand, or no credential

\* What the operations that are no auth key and no revocation may be.  Edits
\* stand for the changes that give no secret and can be read back.
Operations == {"create", "rotate", "edit", "test"}

SecretAllowances == [kinds : SUBSET (Operations \cup {"key", "revoke"}), refreshes : Nat, faults : Nat, connects : Nat]

ASSUME SecretsAssumption ==
    /\ Credentials # {} /\ Nil \notin Credentials /\ Errands \subseteq Nat \ {Nil}
    /\ SecretBounds \subseteq SecretAllowances

VARIABLES permitted,      \* what may still happen
          enrolled,       \* App.admin.profile is some
          adminGen,       \* App.admin_generation
          dialogs,        \* App.overlays
          keyRequest,     \* App.pending_auth_key_request is some
          keyPending,     \* App.pending_auth_key_result: the change awaited
          opPending,      \* App.pending_operational_mutation: the change awaited
          revokePending,  \* App.pending_credential_revoke
          secret,         \* App.secret_result: the change whose secret is shown
          listed,         \* the credentials as last read
          cursor,         \* the selected credential
          change,         \* the workers
          existing,       \* credentials not revoked (external)
          setting,        \* whether the webhook or setting is as it is asked to be (external)
          closed          \* history: secrets the user has closed

secretVars == <<permitted, enrolled, adminGen, dialogs, keyRequest, keyPending, opPending, revokePending,
                secret, listed, cursor, change, existing, setting, closed>>

GivesSecret(kind) == kind \in {"key", "create", "rotate"}
NoChange == [kind |-> "none"]
NewChange(kind, on) ==
    [kind |-> kind, on |-> on, gen |-> adminGen, step |-> "write", sent |-> "no", reached |-> FALSE, issued |-> FALSE,
     result |-> "none", told |-> "none"]

SecretsInit ==
    /\ permitted \in SecretBounds
    /\ enrolled = TRUE
    /\ adminGen = 0
    /\ dialogs = <<>>
    /\ keyRequest = FALSE
    /\ keyPending = Nil /\ opPending = Nil /\ revokePending = Nil
    /\ secret = Nil
    /\ listed = Credentials
    /\ cursor = CHOOSE c \in Credentials : TRUE
    /\ change = [t \in Errands |-> NoChange]
    /\ existing = Credentials
    /\ setting = FALSE
    /\ closed = {}

Allow(what) == permitted[what] > 0 /\ permitted' = [permitted EXCEPT ![what] = @ - 1]
Offered(kind) == kind \in permitted.kinds
Remote == UNCHANGED <<existing, setting>>
Held == UNCHANGED <<keyRequest, keyPending, opPending, revokePending>>
Listing == UNCHANGED <<listed, cursor>>

NoDialog == [kind |-> "none"]
Top == IF dialogs = <<>> THEN NoDialog ELSE dialogs[Len(dialogs)]
Shows(ds, kind) == \E i \in DOMAIN ds : ds[i].kind = kind
Without(ds, kind) == IF Shows(ds, kind) THEN SelectSeq(ds, LAMBDA d : d.kind # kind) ELSE ds
Popped == SubSeq(dialogs, 1, Len(dialogs) - 1)

\* A worker, in the next slot.
Slot == CHOOSE t \in Errands : change[t] = NoChange
Ask(kind, on) ==
    /\ \E t \in Errands : change[t] = NoChange
    /\ change' = [change EXCEPT ![Slot] = NewChange(kind, on)]

-----------------------------------------------------------------------------
(* The user *)

Dialog(kind, on) == [kind |-> kind, on |-> on, gen |-> adminGen]
Push(d) == dialogs' = Append(dialogs, d)

KeyOffered == enrolled /\ keyPending = Nil /\ opPending = Nil /\ secret = Nil

\* open_auth_key_form_with_request.
ReviewKey ==
    /\ dialogs = <<>> /\ Offered("key") /\ KeyOffered
    /\ keyRequest' = TRUE
    /\ Push(Dialog("key", Nil))
    /\ Remote /\ Listing /\ UNCHANGED <<permitted, enrolled, adminGen, keyPending, opPending, revokePending, secret, change, closed>>

\* Mutant: a second secret may be asked for while the first is awaited or shown.
OperationOffered_AnySecret(kind) == enrolled /\ opPending = Nil

\* operational_mutation_available.
OperationOffered(kind) ==
    /\ enrolled /\ opPending = Nil
    /\ GivesSecret(kind) => keyPending = Nil /\ secret = Nil

\* open_operational_confirmation.
ReviewOperation(kind) ==
    /\ dialogs = <<>> /\ Offered(kind) /\ OperationOffered(kind)
    /\ Push(Dialog(kind, Nil))
    /\ Remote /\ Held /\ Listing /\ UNCHANGED <<permitted, enrolled, adminGen, secret, change, closed>>

\* open_credential_revoke_confirmation: its details are read first.
ReviewRevocation ==
    /\ dialogs = <<>> /\ Offered("revoke") /\ enrolled /\ cursor \in listed
    /\ revokePending' = cursor
    /\ Ask("detail", cursor)
    /\ Remote /\ Listing /\ UNCHANGED <<permitted, enrolled, adminGen, dialogs, keyRequest, keyPending, opPending, secret, closed>>

Select ==
    /\ dialogs = <<>> /\ Offered("revoke")
    /\ cursor' \in Credentials \ {cursor}
    /\ Remote /\ Held /\ UNCHANGED <<permitted, enrolled, adminGen, dialogs, secret, listed, change, closed>>

\* What a dismissed dialog held: mutant, the revocation stays awaited.
LetGo_KeepsRevocation(d) ==
    /\ keyRequest' = (keyRequest /\ d.kind # "key")
    /\ UNCHANGED revokePending

LetGo(d) ==
    /\ keyRequest' = (keyRequest /\ d.kind # "key")
    /\ revokePending' = IF d.kind = "revoke" THEN Nil ELSE revokePending

\* pop_overlay; close_secret_result reads the credentials again.
Dismiss ==
    /\ dialogs # <<>>
    /\ IF Top.kind = "secret"
       THEN /\ closed' = closed \cup {secret}
            /\ secret' = Nil
            /\ dialogs' = Without(Popped, "secret")
            /\ adminGen' = IF enrolled THEN adminGen + 1 ELSE adminGen
       ELSE dialogs' = Popped /\ UNCHANGED <<closed, secret, adminGen>>
    /\ LetGo(Top)
    /\ Remote /\ Listing /\ UNCHANGED <<permitted, enrolled, keyPending, opPending, change>>

Confirmed(kind) == Top.kind = kind /\ Top.gen = adminGen /\ enrolled /\ dialogs' = Popped

AcceptKey ==
    /\ Confirmed("key") /\ keyRequest
    /\ keyRequest' = FALSE
    /\ Ask("key", Nil)
    /\ keyPending' = Slot
    /\ Remote /\ Listing /\ UNCHANGED <<permitted, enrolled, adminGen, opPending, revokePending, secret, closed>>

\* accept_operational_mutation.
AcceptOperation(kind) ==
    /\ Confirmed(kind) /\ OperationOffered(kind)
    /\ Ask(kind, Nil)
    /\ opPending' = Slot
    /\ Remote /\ Listing /\ UNCHANGED <<permitted, enrolled, adminGen, keyRequest, keyPending, revokePending, secret, closed>>

AcceptRevocation ==
    /\ Confirmed("revoke") /\ revokePending = Top.on /\ cursor = Top.on /\ Top.on \in listed
    /\ Ask("revoke", Top.on)
    /\ Remote /\ Held /\ Listing /\ UNCHANGED <<permitted, enrolled, adminGen, secret, closed>>

\* switch_profile refuses while a change or a secret is awaited or shown.
CanSwitch == keyPending = Nil /\ opPending = Nil /\ revokePending = Nil /\ secret = Nil

\* finish_profile_probe, whatever is open then, and clear_admin_profile.
SwitchProfileAway ==
    /\ Allow("connects") /\ CanSwitch
    /\ enrolled' = ~enrolled
    /\ adminGen' = adminGen + 1
    /\ keyRequest' = FALSE
    /\ Remote /\ Listing /\ UNCHANGED <<dialogs, keyPending, opPending, revokePending, secret, change, closed>>

\* A refresh, and its answer: the list may be another, and so the selection.
Relist ==
    /\ Allow("refreshes") /\ enrolled
    /\ adminGen' = adminGen + 1
    /\ listed' = existing
    /\ cursor' \in Credentials
    /\ Remote /\ Held /\ UNCHANGED <<enrolled, dialogs, secret, change, closed>>

-----------------------------------------------------------------------------
(* The workers *)

Works(t, step) == change[t] # NoChange /\ change[t].step = step
WorkerOnly == Held /\ Listing /\ UNCHANGED <<enrolled, adminGen, dialogs, secret, closed>>

\* What the control server does with a change.
TakesEffect(c) ==
    /\ existing' = IF c.kind = "revoke" THEN existing \ {c.on} ELSE existing
    /\ setting' = (setting \/ c.kind = "edit")

Written(t, sent, took, step, result) ==
    change' = [change EXCEPT ![t].sent = sent, ![t].reached = took, ![t].step = step, ![t].result = result,
                             ![t].issued = (sent = "accepted" /\ GivesSecret(change[t].kind))]

Accepted(t) ==
    /\ Works(t, "write") /\ change[t].kind # "detail"
    /\ TakesEffect(change[t])
    /\ IF change[t].kind = "key" THEN Written(t, "accepted", TRUE, "answered", "Created")
       ELSE Written(t, "accepted", TRUE, "verify", "none")
    /\ WorkerOnly /\ UNCHANGED permitted

Refused(t) ==
    /\ Works(t, "write") /\ change[t].kind # "detail" /\ Allow("faults")
    /\ Written(t, "refused", FALSE, "answered", "Failed")
    /\ Remote /\ WorkerOnly

\* What a worker makes of a request without an answer it can read: mutant,
\* a request without an answer is one that was not sent.
AfterLoss_Failed(kind) == [step |-> "answered", result |-> "Failed"]

\* operational_write_may_have_reached_server, revocation_may_have_reached_server.
AfterLoss(kind) ==
    CASE kind = "key"                  -> [step |-> "answered", result |-> "Failed"]
      [] kind \in {"rotate", "test"}   -> [step |-> "answered", result |-> "Unknown"]
      [] OTHER                         -> [step |-> "verify", result |-> "none"]

AnswerLost(t) ==
    /\ Works(t, "write") /\ change[t].kind # "detail" /\ Allow("faults")
    /\ \/ TakesEffect(change[t]) /\ Written(t, "lost", TRUE, AfterLoss(change[t].kind).step, AfterLoss(change[t].kind).result)
       \/ Remote /\ Written(t, "lost", FALSE, AfterLoss(change[t].kind).step, AfterLoss(change[t].kind).result)
    /\ WorkerOnly

\* revocation_may_have_reached_server leaves one answer out: that of a revocation,
\* made, which is too large to be read.
AnswerUnread(t) ==
    /\ Works(t, "write") /\ change[t].kind = "revoke" /\ Allow("faults")
    /\ TakesEffect(change[t])
    /\ Written(t, "unread", TRUE, "answered", "Failed")
    /\ WorkerOnly

\* What the reads after a change look for.  One who has no identifier of the
\* webhook it may have made finds any that looks the same.
Observed(c) ==
    CASE c.kind = "create" -> c.reached \/ (c.sent = "lost" /\ setting)
      [] c.kind = "edit"   -> setting
      [] c.kind = "revoke" -> c.on \notin existing
      [] OTHER             -> TRUE

\* reconcile_operational_write, and run_credential_revoke.
Reconciled(c, read) ==
    IF c.kind = "create" /\ c.sent = "lost" THEN "Unknown"
    ELSE IF read = "found" THEN "Verified"
    ELSE IF c.kind = "revoke" /\ read = "not found" /\ c.sent # "lost" THEN "Failed"
    ELSE IF c.kind = "revoke" \/ c.sent = "lost" THEN "Unknown"
    ELSE "Unverified"

VerifyChange(t) ==
    /\ Works(t, "verify")
    /\ \E read \in {"found", "not found", "unread"} :
        /\ read = "found" => Observed(change[t])
        /\ read = "not found" => ~Observed(change[t])
        /\ IF read = "unread" THEN Allow("faults") ELSE UNCHANGED permitted
        /\ change' = [change EXCEPT ![t].step = "answered", ![t].result = Reconciled(change[t], read)]
    /\ Remote /\ WorkerOnly

\* run_credential_detail: the credential is there, or it is revoked or unread.
ReadDetail(t) ==
    /\ Works(t, "write") /\ change[t].kind = "detail"
    /\ \/ /\ change' = [change EXCEPT ![t].step = "answered", ![t].result = IF change[t].on \in existing THEN "there" ELSE "gone"]
          /\ UNCHANGED permitted
       \/ /\ Allow("faults")
          /\ change' = [change EXCEPT ![t].step = "answered", ![t].result = "unread"]
    /\ Remote /\ WorkerOnly

-----------------------------------------------------------------------------
(* The answers *)

Told(t, what) == change' = [change EXCEPT ![t].step = "ended", ![t].told = what]
Answers(t, kinds) == Works(t, "answered") /\ change[t].kind \in kinds

ShowSecret(t) ==
    IF change[t].issued THEN secret' = t /\ Push(Dialog("secret", Nil))
    ELSE UNCHANGED <<secret, dialogs>>

\* CredentialEvent::AuthKeyCreated, AuthKeyCreateFailed.
KeyAnswered(t) ==
    /\ Answers(t, {"key"})
    /\ IF keyPending # t THEN Told(t, "nothing") /\ UNCHANGED <<keyPending, secret, dialogs>>
       ELSE keyPending' = Nil /\ Told(t, change[t].result) /\ ShowSecret(t)
    /\ Remote /\ Listing /\ UNCHANGED <<permitted, enrolled, adminGen, keyRequest, opPending, revokePending, closed>>

\* AdminEvent::OperationalFinished: its secret is shown wherever the user is now.
OperationAnswered(t) ==
    /\ Answers(t, Operations)
    /\ LET expected == opPending = t
           current  == expected /\ enrolled /\ change[t].gen = adminGen IN
       /\ opPending' = IF expected THEN Nil ELSE opPending
       /\ Told(t, IF current THEN change[t].result ELSE "elsewhere")
       /\ adminGen' \in IF current THEN {adminGen, adminGen + 1} ELSE {adminGen}
    /\ ShowSecret(t)
    /\ Remote /\ Listing /\ UNCHANGED <<permitted, enrolled, keyRequest, keyPending, revokePending, closed>>

\* CredentialEvent::DetailFetched: the review opens over whatever is open.
DetailAnswered(t) ==
    /\ Answers(t, {"detail"})
    /\ IF revokePending = change[t].on /\ change[t].result = "there"
       THEN Push(Dialog("revoke", change[t].on)) /\ UNCHANGED revokePending
       ELSE /\ revokePending' = IF revokePending = change[t].on THEN Nil ELSE revokePending
            /\ UNCHANGED dialogs
    /\ Told(t, "nothing")
    /\ Remote /\ Listing /\ UNCHANGED <<permitted, enrolled, adminGen, keyRequest, keyPending, opPending, secret, closed>>

\* clear_admin_profile: refused like any switch of profile.
Disconnect ==
    IF enrolled /\ keyPending = Nil /\ opPending = Nil /\ secret = Nil
    THEN /\ enrolled' = FALSE
         /\ adminGen' = adminGen + 1
         /\ keyRequest' = FALSE
    ELSE UNCHANGED <<enrolled, adminGen, keyRequest>>

\* CredentialEvent::Revoked.
RevocationAnswered(t) ==
    /\ Answers(t, {"revoke"})
    /\ IF revokePending # change[t].on
       THEN Told(t, "nothing") /\ UNCHANGED <<revokePending, enrolled, adminGen, keyRequest>>
       ELSE /\ revokePending' = Nil
            /\ Told(t, change[t].result)
            /\ IF change[t].result = "Verified" THEN Disconnect ELSE UNCHANGED <<enrolled, adminGen, keyRequest>>
    /\ Remote /\ Listing /\ UNCHANGED <<permitted, dialogs, keyPending, opPending, secret, closed>>

SecretsNext ==
    \/ ReviewKey \/ ReviewRevocation \/ Select \/ Dismiss \/ AcceptKey \/ AcceptRevocation \/ SwitchProfileAway \/ Relist
    \/ \E k \in Operations : ReviewOperation(k) \/ AcceptOperation(k)
    \/ \E t \in Errands : \/ Accepted(t) \/ Refused(t) \/ AnswerLost(t) \/ AnswerUnread(t) \/ VerifyChange(t)
                          \/ ReadDetail(t)
                          \/ KeyAnswered(t) \/ OperationAnswered(t) \/ DetailAnswered(t) \/ RevocationAnswered(t)

SecretsSpec == SecretsInit /\ [][SecretsNext]_secretVars

-----------------------------------------------------------------------------
(* Properties *)

SecretDialogs == [kind : Operations \cup {"key", "revoke", "secret"}, on : Credentials \cup {Nil}, gen : Nat]
SecretResults == {"none", "Created", "Failed", "Unknown", "Verified", "Unverified", "there", "gone", "unread"}
SecretChanges ==
    [kind : Operations \cup {"key", "revoke", "detail"}, on : Credentials \cup {Nil}, gen : Nat,
     step : {"write", "verify", "answered", "ended"}, sent : {"no", "accepted", "refused", "lost", "unread"},
     reached : BOOLEAN, issued : BOOLEAN, result : SecretResults, told : SecretResults \cup {"nothing", "elsewhere"}]

\* What is open, held, awaited and under way; what is awaited has a worker.
SecretsTypeOK ==
    /\ permitted \in SecretAllowances
    /\ enrolled \in BOOLEAN /\ adminGen \in Nat /\ keyRequest \in BOOLEAN /\ setting \in BOOLEAN
    /\ dialogs \in Seq(SecretDialogs)
    /\ {keyPending, opPending, secret} \subseteq Errands \cup {Nil} /\ closed \subseteq Errands
    /\ revokePending \in Credentials \cup {Nil} /\ cursor \in Credentials
    /\ listed \subseteq Credentials /\ existing \subseteq Credentials
    /\ change \in [Errands -> SecretChanges \cup {NoChange}]

\* A secret that came in an answer reaches the user: until it is shown it is
\* under way to a reducer that will show it, and it is shown until the user
\* closes it - never replaced by the next one, dropped for a stale generation
\* or closed by a change of profile.
SecretsReachTheUser ==
    /\ \A t \in Errands : change[t] # NoChange /\ change[t].issued =>
           \/ t = secret \/ t \in closed
           \/ change[t].step \in {"verify", "answered"}
    /\ secret # Nil <=> Shows(dialogs, "secret")

\* What the user is told of a change is so, whatever was lost between Tale and
\* the control server: verified and unverified changes were made, and their
\* secrets came; a change that failed was not made.  (Two are said to have failed
\* though they may have been made: an auth key whose answer is lost, and a
\* revocation whose answer is too large.)
AnswersAreTrue ==
    \A t \in Errands : change[t] # NoChange =>
        /\ change[t].told \in {"Verified", "Unverified", "Created"} =>
               CASE GivesSecret(change[t].kind) -> change[t].issued
                 [] change[t].kind = "edit"     -> setting
                 [] change[t].kind = "revoke"   -> change[t].on \notin existing
                 [] OTHER                       -> change[t].reached
        /\ change[t].told = "Failed" /\ change[t].kind # "key" /\ change[t].sent # "unread" => ~change[t].reached

\* Once every answer has been handled and every dialog is closed, nothing is
\* held that forbids another change of its kind or a switch of profile.
NothingIsHeld ==
    dialogs = <<>> /\ (\A t \in Errands : change[t] = NoChange \/ change[t].step = "ended") => CanSwitch /\ ~keyRequest

\* Whatever the user asked for comes to him, is told as it went, and leaves
\* nothing behind.
WhatIsAskedIsSettled == SecretsReachTheUser /\ AnswersAreTrue /\ NothingIsHeld

=============================================================================
