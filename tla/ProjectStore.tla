---------------------------- MODULE ProjectStore ----------------------------
(***************************************************************************)
(* What a transaction promises: the project's database and the controlled   *)
(* files in its folder change together or not at all, whenever the program  *)
(* stops.  The folder is described by what it holds once an interrupted     *)
(* transaction has been completed.                                          *)
(***************************************************************************)
EXTENDS ProjectData

VARIABLES
    db,      \* the database
    work     \* work[f]: the file in the project folder, None if not controlled

vars == <<db, work>>

(* A file that is not checked out is as the database says.                   *)
Faithful(d, w) ==
    \A f \in File : /\ CheckedIn(d.entry[f]) => w[f] = d.entry[f].sum
                    /\ ~Controlled(d.entry[f]) => w[f] = None

Init == db = NewDatabase /\ work = [f \in File |-> None]

(* No other files change than those whose entry changes.                     *)
Commit ==
    /\ db.serial <= MaxCommits
    /\ db' \in {[serial |-> db.serial + 1, entry |-> e] : e \in [File -> Entry]}
    /\ work' \in [File -> Content \cup {None, Partial}]
    /\ Faithful(db', work')
    /\ \A f \in File : db'.entry[f] = db.entry[f] => work'[f] = work[f]

(* The user changes a file that is checked out.                              *)
Edit ==
    \E f \in File, c \in Content :
        /\ db.entry[f].out
        /\ work' = [work EXCEPT ![f] = c]
        /\ UNCHANGED db

(* What a failed transaction left behind replaces a file that is checked     *)
(* out, when an interrupted one is completed.                               *)
Relapse ==
    \E f \in File, c \in Content \cup {Partial} :
        /\ db.entry[f].out
        /\ work' = [work EXCEPT ![f] = c]
        /\ UNCHANGED db

Next == Commit \/ Edit \/ Relapse

Spec == Init /\ [][Next]_vars

=============================================================================
