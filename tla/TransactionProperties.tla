----------------------- MODULE TransactionProperties -----------------------
(* What the transactions of a project should satisfy.                       *)
EXTENDS Transaction

(* The files and the memory of the program are well typed. *)
TypeOK ==
    /\ switch \in [valid : {1, 2}, redo : BOOLEAN]
    /\ data \in [{1, 2} -> Database \cup {Unreadable}]
    /\ staging \in [File -> OnDisk]
    /\ project \in [File -> OnDisk]
    /\ pc \in Step
    /\ quick \in BOOLEAN
    /\ kind \in Kind
    /\ loaded \in Database
    /\ change \in [File -> Change]
    /\ owed \subseteq File

(* The version of f that the project holds, or will when what has to be      *)
(* redone is redone.  What else is in the staging area is what a failed      *)
(* transaction left there.                                                  *)
Promised(f) ==
    IF ToRedo(Stored, f) /\ (CheckedIn(Stored.entry[f]) \/ f \in owed)
    THEN staging[f] ELSE project[f]

(***************************************************************************)
(* At any moment the program may stop and what is on the disk still is one  *)
(* version of the project: the switch names a database that can be read,    *)
(* and each checked-in file is as that database says, or is staged and will *)
(* be copied (SwitchFile, Transaction, TransactionFileList,                 *)
(* StagingVerifier).                                                        *)
(***************************************************************************)
Recoverable ==
    /\ Stored \in Database
    /\ \A f \in File : CheckedIn(Stored.entry[f]) => Promised(f) = Stored.entry[f].sum

(***************************************************************************)
(* Redoing an interrupted transaction never finds a file that it had staged  *)
(* to have the wrong check sum, and deletes it only when it is in the        *)
(* project ("File in the staging area has wrong checksum"), whatever other   *)
(* transactions left in the staging area before, or fail to do after it.     *)
(***************************************************************************)
NothingDiscarded ==
    [][\A f \in owed : staging[f] # None /\ staging'[f] = None => project'[f] = staging[f]]_vars

(***************************************************************************)
(* "If a staging transaction was interrupted we have to redo it."           *)
(* (StagingCleanup in Transact.cpp)  When a project has been verified no     *)
(* file that is not checked out differs from what the database says.        *)
(***************************************************************************)
InterruptedIsRedone ==
    pc = "idle" /\ ~switch.redo =>
        \A f \in File : CheckedIn(loaded.entry[f]) => project[f] = loaded.entry[f].sum

(***************************************************************************)
(* Database and project files change together or not at all, whenever the   *)
(* program stops or a transaction fails.  A file that is checked out keeps   *)
(* the user's edits when a transaction is committed that does not touch it;  *)
(* only where an interrupted transaction is redone may what a failed one     *)
(* left in the staging area replace them.                                   *)
(***************************************************************************)
Store == INSTANCE ProjectStore WITH
    db <- Stored,
    work <- [f \in File |-> IF Controlled(Stored.entry[f]) THEN Promised(f) ELSE None]

ImplementsStore == Store!Spec

=============================================================================
