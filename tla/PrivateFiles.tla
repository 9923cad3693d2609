---------------------------- MODULE PrivateFiles ----------------------------
(***************************************************************************)
(* The files Tale writes: credentials, configuration, saved views, exports.*)
(* Each is read whole, changed, written to a temporary file beside it and  *)
(* renamed.  tale auth add and remove change two of them one after the     *)
(* other; a Tale with saved views writes what it holds in memory.  Any     *)
(* process may fail or die between two steps.                              *)
(***************************************************************************)
EXTENDS Integers, Sequences, FiniteSets

CONSTANTS Names,         \* profiles, views or exported files
          Writers,       \* processes
          FileBounds     \* what may happen: [script, present, faults, deaths, alone]

Absent == 0
Before == -1             \* the value of what was there at first

FileOperations ==
    [op : {"add", "remove", "drop", "export", "create", "replace", "rename", "discard"}, name : Names, yes : BOOLEAN]

ASSUME FilesAssumption ==
    /\ Writers \subseteq Nat \ {Absent}
    /\ FileBounds \subseteq [script : [Writers -> Seq(FileOperations)], present : SUBSET Names,
                            faults : Nat, deaths : Nat, alone : BOOLEAN]

Files == {"credentials", "config", "views", "exports"}

VARIABLES budget,      \* what may still happen
          disk,        \* the files: [whole, entries]
          todo,        \* the operations a process has yet to begin: [op, name, yes]
          doing,       \* the operation under way
          pc,          \* its next step
          write,       \* the file it writes: [file, entries, temp, then]
          previous,    \* auth_add: the credential there was
          memory,      \* SavedViewStore.file
          said,        \* what the user was told of the last operation
          before,      \* history: the files when it began
          latest       \* history: the process that began last

fileVars == <<budget, disk, todo, doing, pc, write, previous, memory, said, before, latest>>

NoFile == [file |-> "none", entries |-> [n \in Names |-> Absent], temp |-> "none", then |-> "none"]
NoOperation == [op |-> "none", name |-> Absent, yes |-> FALSE]

FilesInit ==
    /\ budget \in FileBounds
    /\ disk = [f \in Files |-> [whole |-> TRUE, entries |-> [n \in Names |-> IF n \in budget.present THEN Before ELSE Absent]]]
    /\ todo = [p \in Writers |-> budget.script[p]]
    /\ doing = [p \in Writers |-> NoOperation]
    /\ pc = [p \in Writers |-> "idle"]
    /\ write = [p \in Writers |-> NoFile]
    /\ previous = [p \in Writers |-> Absent]
    /\ memory = [p \in Writers |-> disk["views"].entries]
    /\ said = [p \in Writers |-> "nothing"]
    /\ before = disk
    /\ latest = Absent

Entries(f) == disk[f].entries
Name(p) == doing[p].name
GoesOn(p, step) == pc' = [pc EXCEPT ![p] = step]
Tells(p, what) == said' = [said EXCEPT ![p] = what] /\ GoesOn(p, "idle")
Faulty == budget.faults > 0 /\ budget' = [budget EXCEPT !.faults = @ - 1]
At(p, step) == pc[p] = step

\* Views are changed in memory first, whatever becomes of the file.
Base(f, p) == IF f = "views" THEN memory[p] ELSE Entries(f)

\* To write file f with value v at name n.
Writes(p, f, n, v, then) ==
    /\ write' = [write EXCEPT ![p] = [file |-> f, entries |-> [Base(f, p) EXCEPT ![n] = v], temp |-> "none", then |-> then]]
    /\ GoesOn(p, "create")

-----------------------------------------------------------------------------
(* Operations *)

FirstStep(op) ==
    CASE op = "add"                 -> "get"
      [] op \in {"remove", "drop"} -> "delete"
      [] op = "export"              -> "export"
      [] OTHER                      -> "view"

Begin(p) ==
    /\ At(p, "idle") /\ todo[p] # <<>>
    /\ budget.alone => \A q \in Writers : pc[q] \in {"idle", "dead"}
    /\ doing' = [doing EXCEPT ![p] = Head(todo[p])]
    /\ todo' = [todo EXCEPT ![p] = Tail(@)]
    /\ IF Head(todo[p]).op \in {"remove", "drop"} /\ Entries("config")[Head(todo[p]).name] = Absent
       THEN Tells(p, "refused")
       ELSE GoesOn(p, FirstStep(Head(todo[p]).op)) /\ said' = [said EXCEPT ![p] = "nothing"]
    /\ before' = disk /\ latest' = p
    /\ UNCHANGED <<budget, disk, write, previous, memory>>

ProgressOnly == UNCHANGED <<disk, todo, doing, memory, before, latest>>

AddGets(p) ==
    /\ At(p, "get")
    /\ \/ Faulty /\ Tells(p, "failed") /\ UNCHANGED previous
       \/ /\ previous' = [previous EXCEPT ![p] = Entries("credentials")[Name(p)]]
          /\ GoesOn(p, "set")
          /\ UNCHANGED <<budget, said>>
    /\ ProgressOnly /\ UNCHANGED write

AddSets(p) ==
    /\ At(p, "set")
    /\ \/ Faulty /\ Tells(p, "failed") /\ UNCHANGED write
       \/ Writes(p, "credentials", Name(p), p, "profile") /\ UNCHANGED <<budget, said>>
    /\ ProgressOnly /\ UNCHANGED previous

\* write_profile_atomic.
AddsProfile(p) ==
    /\ At(p, "profile")
    /\ \/ Faulty /\ GoesOn(p, "undo") /\ UNCHANGED write
       \/ Writes(p, "config", Name(p), p, "stored") /\ UNCHANGED budget
    /\ ProgressOnly /\ UNCHANGED <<previous, said>>

Undo(p) ==
    /\ At(p, "undo")
    /\ \/ Faulty /\ Tells(p, "failed, not undone") /\ UNCHANGED write
       \/ Writes(p, "credentials", Name(p), previous[p], "undone") /\ UNCHANGED <<budget, said>>
    /\ ProgressOnly /\ UNCHANGED previous

\* FileCredentialStore::delete; auth_remove then asks about the profile.
Deletes(p) ==
    /\ At(p, "delete")
    /\ LET next == IF doing[p].op = "remove" /\ doing[p].yes THEN "unconfigure" ELSE "removed" IN
       \/ Faulty /\ Tells(p, "failed") /\ UNCHANGED write
       \/ /\ Entries("credentials")[Name(p)] # Absent
          /\ Writes(p, "credentials", Name(p), Absent, next) /\ UNCHANGED <<budget, said>>
       \/ /\ Entries("credentials")[Name(p)] = Absent
          /\ GoesOn(p, next) /\ UNCHANGED <<budget, said, write>>
    /\ ProgressOnly /\ UNCHANGED previous

\* remove_profile_atomic.
Unconfigures(p) ==
    /\ At(p, "unconfigure")
    /\ \/ Faulty /\ Tells(p, "failed") /\ UNCHANGED write
       \/ /\ Entries("config")[Name(p)] # Absent
          /\ Writes(p, "config", Name(p), Absent, "removed") /\ UNCHANGED <<budget, said>>
       \/ /\ Entries("config")[Name(p)] = Absent
          /\ GoesOn(p, "removed") /\ UNCHANGED <<budget, said, write>>
    /\ ProgressOnly /\ UNCHANGED previous

\* SavedViewStore::create, replace, rename and delete: the memory is changed, then
\* written; a failed write leaves it changed.
ChangesView(p) ==
    /\ At(p, "view")
    /\ LET n == Name(p)
           op == doing[p].op
           changed == CASE op = "create"  -> {[memory[p] EXCEPT ![n] = p] : m \in {n} \cap {x \in Names : memory[p][x] = Absent}}
                        [] op = "replace" -> {[memory[p] EXCEPT ![n] = p] : m \in {n} \cap {x \in Names : memory[p][x] # Absent}}
                        [] op = "discard" -> {[memory[p] EXCEPT ![n] = Absent] : m \in {n} \cap {x \in Names : memory[p][x] # Absent}}
                        [] OTHER          -> {[memory[p] EXCEPT ![n] = Absent, ![m] = memory[p][n]] :
                                                 m \in {x \in Names \ {n} : memory[p][x] = Absent /\ memory[p][n] # Absent}} IN
       IF changed = {} THEN Tells(p, "refused") /\ UNCHANGED <<memory, write>>
       ELSE \E views \in changed :
              /\ memory' = [memory EXCEPT ![p] = views]
              /\ write' = [write EXCEPT ![p] = [file |-> "views", entries |-> views, temp |-> "none", then |-> "stored"]]
              /\ GoesOn(p, "create") /\ UNCHANGED said
    /\ UNCHANGED <<budget, disk, todo, doing, previous, before, latest>>

\* write_atomic: yes stands for overwrite_confirmed.
Exports(p) ==
    /\ At(p, "export")
    /\ IF Entries("exports")[Name(p)] # Absent /\ ~doing[p].yes THEN Tells(p, "refused") /\ UNCHANGED write
       ELSE Writes(p, "exports", Name(p), p, "stored") /\ UNCHANGED said
    /\ ProgressOnly /\ UNCHANGED <<budget, previous>>

-----------------------------------------------------------------------------
(* write_private_atomic, write_owner_only_atomic, atomic_write *)

\* Mutant: the credential of a profile that was not written is left as it is.
AfterFailure_Kept(p) == Tells(p, IF write[p].then = "undone" THEN "failed, not undone" ELSE "failed")

\* What follows a write that failed: the profile's undoes the credential's.
AfterFailure(p) ==
    IF write[p].file = "config" /\ doing[p].op = "add" THEN GoesOn(p, "undo") /\ UNCHANGED said
    ELSE Tells(p, IF write[p].then = "undone" THEN "failed, not undone" ELSE "failed")

WriteOnly == UNCHANGED <<todo, doing, previous, memory, before, latest>>

\* The temporary file is removed.
WriteFails(p) ==
    /\ pc[p] \in {"create", "fill", "move"} /\ Faulty
    /\ AfterFailure(p)
    /\ write' = [write EXCEPT ![p] = NoFile]
    /\ WriteOnly /\ UNCHANGED disk

Creates(p) ==
    /\ At(p, "create")
    /\ write' = [write EXCEPT ![p].temp = "empty"]
    /\ GoesOn(p, "fill")
    /\ WriteOnly /\ UNCHANGED <<budget, disk, said>>

Fills(p) ==
    /\ At(p, "fill")
    /\ write' = [write EXCEPT ![p].temp = "whole"]
    /\ GoesOn(p, "move")
    /\ WriteOnly /\ UNCHANGED <<budget, disk, said>>

Moves(p) ==
    /\ At(p, "move")
    /\ disk' = [disk EXCEPT ![write[p].file] = [whole |-> write[p].temp = "whole", entries |-> write[p].entries]]
    /\ GoesOn(p, write[p].then)
    /\ write' = [write EXCEPT ![p] = NoFile]
    /\ WriteOnly /\ UNCHANGED <<budget, said>>

Reports(p) ==
    /\ pc[p] \in {"stored", "undone", "removed"}
    /\ Tells(p, IF pc[p] = "undone" THEN "failed" ELSE pc[p])
    /\ WriteOnly /\ UNCHANGED <<budget, disk, write>>

\* A process dies; its temporary file stays.
Dies(p) ==
    /\ pc[p] \notin {"idle", "dead"} /\ budget.deaths > 0
    /\ budget' = [budget EXCEPT !.deaths = @ - 1]
    /\ GoesOn(p, "dead")
    /\ WriteOnly /\ UNCHANGED <<disk, write, said>>

FilesNext ==
    \E p \in Writers :
        \/ Begin(p) \/ AddGets(p) \/ AddSets(p) \/ AddsProfile(p) \/ Undo(p) \/ Deletes(p) \/ Unconfigures(p)
        \/ ChangesView(p) \/ Exports(p) \/ WriteFails(p) \/ Creates(p) \/ Fills(p) \/ Moves(p) \/ Reports(p) \/ Dies(p)

FilesSpec == FilesInit /\ [][FilesNext]_fileVars

-----------------------------------------------------------------------------
(* Properties *)

FileValues  == Writers \cup {Absent, Before}
FileEntries == [Names -> FileValues]
FileSteps   == {"idle", "dead", "get", "set", "profile", "undo", "delete", "unconfigure", "view", "export",
                "create", "fill", "move", "stored", "undone", "removed"}
FileWrites  ==
    [file : Files \cup {"none"}, entries : FileEntries, temp : {"none", "empty", "whole"},
     then : {"none", "profile", "stored", "undone", "unconfigure", "removed"}]

FilesTypeOK ==
    /\ disk \in [Files -> [whole : BOOLEAN, entries : FileEntries]]
    /\ todo \in [Writers -> Seq(FileOperations)]
    /\ doing \in [Writers -> FileOperations \cup {NoOperation}]
    /\ pc \in [Writers -> FileSteps]
    /\ write \in [Writers -> FileWrites]
    /\ previous \in [Writers -> FileValues]
    /\ memory \in [Writers -> FileEntries]
    /\ said \in [Writers -> {"nothing", "refused", "failed", "failed, not undone", "stored", "removed"}]
    /\ before \in [Files -> [whole : BOOLEAN, entries : FileEntries]]
    /\ latest \in Writers \cup {Absent}

\* What the operation of p, the only one since it began, was said to have done.
AsSaid(p) ==
    LET n == Name(p)
        op == doing[p].op
        Now(f) == Entries(f)[n]
        Same(f) == Entries(f) = before[f].entries IN
    /\ said[p] = "refused" => disk = before
    /\ said[p] = "failed" => IF op = "remove" THEN Same("config") ELSE disk = before
    /\ said[p] = "failed, not undone" => Same("config")
    /\ said[p] = "removed" => Now("credentials") = Absent /\ (op = "remove" /\ doing[p].yes => Now("config") = Absent)
    /\ said[p] = "stored" =>
           CASE op = "add"    -> Now("credentials") = p /\ Now("config") = p
             [] op = "export" -> Now("exports") = p
             [] OTHER         -> Entries("views") = memory[p]
    /\ \A m \in Names \ {n} : op # "rename" => \A f \in Files \ {"views"} : Entries(f)[m] = before[f].entries[m]

\* A file is whole whoever fails or dies at any step, beside others that write
\* it too, and only the dead leave temporary files.  What the user is told of an
\* operation that no other process came between is so: one that failed has
\* changed nothing (but for what it says it could not undo), one that succeeded
\* is on disk in every file it concerns, and nothing else was changed.  Whoever
\* dies, no profile is configured before its credential is stored.
FilesAreAsSaid ==
    /\ \A f \in Files : disk[f].whole
    /\ \A p \in Writers : pc[p] = "idle" => write[p] = NoFile
    /\ budget.alone /\ latest # Absent =>
           /\ pc[latest] = "idle" => AsSaid(latest)
           /\ doing[latest].op = "add" =>
                  \A n \in Names : Entries("config")[n] # before["config"].entries[n] => Entries("credentials")[n] = latest

=============================================================================
