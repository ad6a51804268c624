---------------------------- MODULE Transaction ----------------------------
(***************************************************************************)
(* How one member's program changes its project: the database is kept in    *)
(* two data files of which a switch file names the valid one; new versions  *)
(* of project files are first put in a staging area.  Flushing the switch   *)
(* commits: before that everything is undone, after that the staged files   *)
(* are moved to the project, by the next visit if need be.  The program may *)
(* stop between any two steps, and in the middle of copying a file.         *)
(*                                                                          *)
(* The server that works for command line tools and other programs visits   *)
(* a project without verifying it (quick visit).  Mail that is unpacked by   *)
(* the timer is not followed by a verification either, so that what a failed *)
(* transaction has left in the staging area stays there.                     *)
(***************************************************************************)
EXTENDS ProjectData

CONSTANT
    Overlapping  \* files may be staged while an interrupted transaction waits

Kind == {"plain", "file"}    \* Transaction, FileTransaction

ASSUME TransactionAssumption == Overlapping \in BOOLEAN

VARIABLES
    switch,      \* valid data file, and whether a commit has to be redone
    data,        \* data[1], data[2]: a database; serial 0 if not readable
    staging,     \* staging[f]: file in the staging area
    project,     \* project[f]: file in the project folder
    pc,          \* where the program is; "away": it is not running
    quick,       \* the visit is a quick one
    kind,        \* kind of the transaction at work
    loaded,      \* the database in memory
    change,      \* change[f]: what the transaction does to f
    owed         \* history: files the transaction to be redone has staged

vars == <<switch, data, staging, project, pc, quick, kind, loaded, change, owed>>

memory == <<quick, kind, loaded, change>>

Staged == {f \in File : change[f].stage # None}

Step == {"away", "recovering", "idle", "staging", "saving", "saved", "finishing", "closing"}

OnDisk == Content \cup {None, Partial}

(* The new entry, the version staged (None: the file stays as it is), and    *)
(* whether the file in the project is deleted first.                        *)
Change == [entry : Entry, stage : Content \cup {None}, delete : BOOLEAN]

Unreadable == [serial |-> 0, entry |-> [f \in File |-> NoEntry]]

Other(i) == 3 - i

Stored == data[switch.valid]

Unchanged(e) == [entry |-> e, stage |-> None, delete |-> FALSE]

NoChange(d) == [f \in File |-> Unchanged(d.entry[f])]

Init ==
    /\ switch = [valid |-> 1, redo |-> FALSE]
    /\ data = <<NewDatabase, Unreadable>>
    /\ staging = [f \in File |-> None]
    /\ project = [f \in File |-> None]
    /\ pc = "away"
    /\ quick = FALSE
    /\ kind = "plain"
    /\ loaded = NewDatabase
    /\ change = NoChange(NewDatabase)
    /\ owed = {}

----------------------------------------------------------------------------
(* Entering a project *)

Visit ==
    /\ pc = "away"
    /\ quick' \in BOOLEAN
    /\ loaded' = Stored
    /\ change' = NoChange(Stored)
    /\ pc' = IF quick' THEN "idle" ELSE "recovering"
    /\ UNCHANGED <<switch, data, staging, project, kind, owed>>

(* The check sum of the official version is compared for checked-in files.   *)
WrongCheckSum(d, f) == CheckedIn(d.entry[f]) /\ staging[f] # d.entry[f].sum

ToRedo(d, f) == switch.redo /\ staging[f] # None /\ ~WrongCheckSum(d, f)

(* Variant: the staged file is deleted before it is copied. *)
RecoverByMoving(f) ==
    /\ pc = "recovering" /\ staging[f] # None /\ loaded.entry[f].known
    /\ staging' = [staging EXCEPT ![f] = None]
    /\ project' = [project EXCEPT ![f] = IF switch.redo THEN Partial ELSE @]
    /\ UNCHANGED <<switch, data, pc, memory, owed>>

(* A staged file is copied if that has to be redone, then deleted.           *)
Recover(f) ==
    /\ pc = "recovering" /\ staging[f] # None /\ loaded.entry[f].known
    /\ IF ToRedo(loaded, f) /\ project[f] # staging[f]
       THEN project' = [project EXCEPT ![f] = staging[f]] /\ UNCHANGED staging
       ELSE staging' = [staging EXCEPT ![f] = None] /\ UNCHANGED project
    /\ UNCHANGED <<switch, data, pc, memory, owed>>

(* Staged files that the database does not know are left where they are.     *)
EndRecovery ==
    /\ pc = "recovering"
    /\ \A f \in File : staging[f] # None => ~loaded.entry[f].known
    /\ switch' = [switch EXCEPT !.redo = FALSE]
    /\ owed' = {}
    /\ pc' = "idle"
    /\ UNCHANGED <<data, staging, project, memory>>

(* The user changes a file that is checked out. *)
Edit(f) ==
    /\ pc \in {"away", "idle"} /\ Stored.entry[f].out
    /\ \E c \in Content : project' = [project EXCEPT ![f] = c]
    /\ UNCHANGED <<switch, data, staging, pc, memory, owed>>

----------------------------------------------------------------------------
(* What a transaction may do to a file with entry e *)

CheckOut(e, c) ==
    CheckedIn(e) /\ c = Unchanged([e EXCEPT !.out = TRUE])

UncheckOut(e, c) ==
    e.out /\ c = [entry |-> [e EXCEPT !.out = FALSE], stage |-> e.sum, delete |-> FALSE]

CheckIn(e, c, current) ==
    e.out /\ current \in Content /\ c = Unchanged([e EXCEPT !.sum = current, !.out = FALSE])

(* A script adds a file or edits one that is not checked out; it deletes it   *)
(* or only removes it from the project.                                      *)
Synchronize(e, c) ==
    /\ ~e.out
    /\ \/ c.entry.sum \in Content \ {e.sum} /\ c.stage = c.entry.sum /\ ~c.delete
       \/ CheckedIn(e) /\ c.entry.sum = None /\ c.stage = None
    /\ ~c.entry.out /\ c.entry.known

(* A script edits a checked-out file.  A text with edits of the user's is    *)
(* merged after the transaction.                                            *)
MergeContents(e, c) ==
    /\ e.out
    /\ c.entry.out /\ c.entry.known /\ c.entry.sum \in Content \ {e.sum}
    /\ \/ c.stage = None /\ ~c.delete
       \/ c.stage = c.entry.sum /\ c.delete

Allowed(e, c, current) ==
    \/ CheckOut(e, c) \/ UncheckOut(e, c) \/ CheckIn(e, c, current)
    \/ Synchronize(e, c) \/ MergeContents(e, c)

----------------------------------------------------------------------------
(* Transactions *)

Begin ==
    /\ pc = "idle" /\ loaded.serial <= MaxCommits
    /\ kind' \in Kind
    /\ pc' = "staging"
    /\ UNCHANGED <<switch, data, staging, project, quick, loaded, change, owed>>

(* The server, and a program that went on after it could not finish, do not  *)
(* look at the phase before they put a file in the staging area.            *)
CanStage == switch.redo => Overlapping

(* An item of the selection or a command of the script is executed.          *)
Execute(f) ==
    /\ pc = "staging" /\ kind = "file"
    /\ change[f] = Unchanged(loaded.entry[f])
    /\ \E c \in Change :
          /\ Allowed(loaded.entry[f], c, project[f])
          /\ c.stage # None => CanStage
          /\ change' = [change EXCEPT ![f] = c]
          /\ staging' = [staging EXCEPT ![f] = IF c.stage # None THEN c.stage ELSE @]
    /\ UNCHANGED <<switch, data, project, pc, quick, kind, loaded, owed>>

(* A command of the user that fails makes the program verify the project; the *)
(* processing of mail and commands for the server do not.                   *)
Fail ==
    /\ pc' \in {"idle"} \cup {p \in {"recovering"} : ~quick}
    /\ change' = NoChange(loaded)
    /\ UNCHANGED <<switch, project, quick, kind, loaded, owed>>

(* A transaction that fails before it is saved deletes what it staged, unless *)
(* it has files and meets an interrupted transaction: its list of files is    *)
(* already marked committed then, and the staged files stay.                 *)
Abort ==
    /\ pc = "staging"
    /\ \E kept \in {k \in BOOLEAN : k => kind = "file" /\ switch.redo} :
          staging' = [f \in File |->
              IF change[f].stage # None /\ ~kept THEN None ELSE staging[f]]
    /\ UNCHANGED data
    /\ Fail

(* A file that cannot be copied to its end is not on the list yet. *)
CopyFails(f) ==
    /\ pc = "staging" /\ kind = "file" /\ CanStage
    /\ change[f] = Unchanged(loaded.entry[f])
    /\ staging' = [g \in File |->
          IF g = f THEN Partial ELSE IF change[g].stage # None THEN None ELSE staging[g]]
    /\ UNCHANGED data
    /\ Fail

Save ==
    /\ pc = "staging" /\ (kind = "file" => ~switch.redo)
    /\ data' = [data EXCEPT ![Other(switch.valid)] = Unreadable]
    /\ pc' = "saving"
    /\ UNCHANGED <<switch, staging, project, memory, owed>>

Changed == [serial |-> loaded.serial + 1, entry |-> [f \in File |-> change[f].entry]]

Saved ==
    /\ pc = "saving"
    /\ data' = [data EXCEPT ![Other(switch.valid)] = Changed]
    /\ pc' = "saved"
    /\ UNCHANGED <<switch, staging, project, memory, owed>>

(* The data or the switch file cannot be written. *)
SaveFails ==
    /\ pc \in {"saving", "saved"}
    /\ data' = [data EXCEPT ![Other(switch.valid)] = Unreadable]
    /\ UNCHANGED staging
    /\ Fail

(* Variant: the phase is left as it is. *)
FlushWithoutRedo ==
    /\ pc = "saved"
    /\ switch' = [valid |-> Other(switch.valid), redo |-> switch.redo]
    /\ owed' = IF kind = "file" THEN Staged ELSE owed
    /\ loaded' = Changed
    /\ pc' = IF kind = "file" THEN "finishing" ELSE "closing"
    /\ UNCHANGED <<data, staging, project, quick, kind, change>>

(* The transaction is committed. *)
Flush ==
    /\ pc = "saved"
    /\ switch' = [valid |-> Other(switch.valid), redo |-> kind = "file" \/ switch.redo]
    /\ owed' = IF kind = "file" THEN Staged ELSE owed
    /\ loaded' = Changed
    /\ pc' = IF kind = "file" THEN "finishing" ELSE "closing"
    /\ UNCHANGED <<data, staging, project, quick, kind, change>>

DeleteFile(f) ==
    /\ pc = "finishing" /\ change[f].delete
    /\ project' = [project EXCEPT ![f] = None]
    /\ change' = [change EXCEPT ![f].delete = FALSE]
    /\ UNCHANGED <<switch, data, staging, pc, quick, kind, loaded, owed>>

(* Deletions come first.  A staged file is copied, then deleted.             *)
MoveFile(f) ==
    /\ pc = "finishing" /\ change[f].stage # None
    /\ \A g \in File : ~change[g].delete
    /\ IF project[f] # staging[f]
       THEN project' = [project EXCEPT ![f] = staging[f]] /\ UNCHANGED <<staging, change>>
       ELSE /\ staging' = [staging EXCEPT ![f] = None]
            /\ change' = [change EXCEPT ![f].stage = None]
            /\ UNCHANGED project
    /\ UNCHANGED <<switch, data, pc, quick, kind, loaded, owed>>

(* Variant: the phase is cleared as soon as the deletions are done. *)
FinishBeforeMoving ==
    /\ pc = "finishing"
    /\ \A f \in File : ~change[f].delete
    /\ switch' = [switch EXCEPT !.redo = FALSE]
    /\ owed' = {}
    /\ pc' = "closing"
    /\ UNCHANGED <<data, staging, project, memory>>

Finish ==
    /\ pc = "finishing"
    /\ \A f \in File : change[f].stage = None /\ ~change[f].delete
    /\ switch' = [switch EXCEPT !.redo = FALSE]
    /\ owed' = {}
    /\ pc' = "closing"
    /\ UNCHANGED <<data, staging, project, memory>>

(* The old data file is emptied. *)
Close ==
    /\ pc = "closing"
    /\ data' = [data EXCEPT ![Other(switch.valid)] = Unreadable]
    /\ pc' = "idle"
    /\ change' = NoChange(loaded)
    /\ UNCHANGED <<switch, staging, project, quick, kind, loaded, owed>>

----------------------------------------------------------------------------
(* Stopping *)

Gone ==
    /\ pc' = "away" /\ quick' = FALSE /\ kind' = "plain"
    /\ loaded' = NewDatabase /\ change' = NoChange(NewDatabase)
    /\ UNCHANGED owed

(* The user leaves the project, or the program stops. *)
Stop ==
    /\ pc # "away"
    /\ UNCHANGED <<switch, data, staging, project>>
    /\ Gone

(* A file cannot be copied to the project, or the switch not be written.  The *)
(* program exits after a command of the user; where mail is processed, and   *)
(* in the server, that exception is caught like any other.                   *)
Exit ==
    /\ pc = "finishing"
    /\ data' = [data EXCEPT ![Other(switch.valid)] = Unreadable]
    /\ UNCHANGED <<switch, staging, project>>
    /\ \/ Gone
       \/ pc' = "idle" /\ change' = NoChange(loaded) /\ UNCHANGED <<quick, kind, loaded, owed>>

(* The program stops while it copies a file to the staging area ... *)
StopStaging(f) ==
    /\ pc = "staging" /\ kind = "file" /\ CanStage
    /\ change[f] = Unchanged(loaded.entry[f])
    /\ staging' = [staging EXCEPT ![f] = Partial]
    /\ UNCHANGED <<switch, data, project>>
    /\ Gone

(* ... or to the project. *)
StopCopying(f) ==
    /\ \/ pc = "finishing" /\ change[f].stage # None /\ \A g \in File : ~change[g].delete
       \/ pc = "recovering" /\ loaded.entry[f].known /\ ToRedo(loaded, f)
    /\ project' = [project EXCEPT ![f] = Partial]
    /\ UNCHANGED <<switch, data, staging>>
    /\ Gone

----------------------------------------------------------------------------

OnFile(f) ==
    \/ Recover(f) \/ Edit(f) \/ Execute(f) \/ CopyFails(f) \/ DeleteFile(f) \/ MoveFile(f)
    \/ StopStaging(f) \/ StopCopying(f)

Next ==
    \/ Visit \/ EndRecovery
    \/ Begin \/ Abort \/ Save \/ Saved \/ SaveFails \/ Flush \/ Finish \/ Close
    \/ Stop \/ Exit
    \/ \E f \in File : OnFile(f)

Spec == Init /\ [][Next]_vars

=============================================================================
