---------------------------- MODULE ProjectData ----------------------------
(* The part of a project's database that describes its files.               *)
EXTENDS Integers

CONSTANTS
    File,        \* global ids of files
    Content,     \* versions of a file
    None,        \* no file
    Partial,     \* contents of a file that was not copied to its end
    MaxCommits   \* bound: transactions

ASSUME DataAssumption ==
    None \notin Content /\ Partial \notin Content \cup {None} /\ MaxCommits \in Nat

Controlled(e) == e.sum # None

CheckedIn(e) == Controlled(e) /\ ~e.out

(* The check sum of the official version of a file, None when it is not in   *)
(* the project, and whether it is checked out.  A deleted file stays known.  *)
Entry ==
    {e \in [sum : Content \cup {None}, out : BOOLEAN, known : BOOLEAN] :
        (e.out => Controlled(e)) /\ (Controlled(e) => e.known)}

NoEntry == [sum |-> None, out |-> FALSE, known |-> FALSE]

Database == [serial : 1 .. MaxCommits + 1, entry : [File -> Entry]]

NewDatabase == [serial |-> 1, entry |-> [f \in File |-> NoEntry]]
=============================================================================
