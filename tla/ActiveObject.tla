---------------------------- MODULE ActiveObject ----------------------------
(* Objects with a thread of their own (ActiveObject, WinLib/Sys/Active.h).   *)
(* Two parties own such an object, the thread that runs in it and the holder *)
(* that started it (auto_active); whichever lets go last deletes it.         *)
EXTENDS Naturals

CONSTANT Conv               \* the objects: the conversations of the server

VARIABLES
  shared,      \* _isShared of SharedByTwo: there is a second owner
  deletions,   \* how often the object was deleted
  dying,       \* _isDying
  thread       \* "none", "suspended", "running", "released" (its), or "dead"

objectVars == <<shared, deletions, dying, thread>>

ObjectTypeOK ==
  /\ shared \in [Conv -> BOOLEAN]
  /\ deletions \in [Conv -> Nat]
  /\ dying \in [Conv -> BOOLEAN]
  /\ thread \in [Conv -> {"none", "suspended", "running", "released", "dead"}]

ObjectInit ==
  /\ shared = [c \in Conv |-> FALSE]
  /\ deletions = [c \in Conv |-> 0]
  /\ dying = [c \in Conv |-> FALSE]
  /\ thread = [c \in Conv |-> "none"]

\* The constructor makes the thread, suspended.
NewObject(c) ==
  /\ thread' = [thread EXCEPT ![c] = "suspended"]
  /\ UNCHANGED <<shared, deletions, dying>>

\* Variant: the thread itself acquires its reference, when it gets to run.
AcquireLater(c) == UNCHANGED <<shared, deletions, dying, thread>>

\* StartThread acquires a reference for the thread before the thread may run.
Acquire(c) ==
  /\ shared' = [shared EXCEPT ![c] = TRUE]
  /\ UNCHANGED <<deletions, dying, thread>>

Resume(c) ==
  /\ thread' = [thread EXCEPT ![c] = "running"]
  /\ UNCHANGED <<shared, deletions, dying>>

\* One owner lets go: in one atomic step it either leaves the object to the
\* other owner or finds itself the last one and deletes the object.
LetGo(c) ==
  IF shared[c]
  THEN /\ shared' = [shared EXCEPT ![c] = FALSE]
       /\ UNCHANGED deletions
  ELSE /\ deletions' = [deletions EXCEPT ![c] = @ + 1]
       /\ UNCHANGED shared

\* The thread leaves Run: it lets go of the object, and dies after that.
ReleaseByThread(c) ==
  /\ LetGo(c)
  /\ thread' = [thread EXCEPT ![c] = "released"]
  /\ UNCHANGED dying

ThreadEnds(c) ==
  /\ thread[c] = "released"
  /\ thread' = [thread EXCEPT ![c] = "dead"]
  /\ UNCHANGED <<shared, deletions, dying>>

ReleaseByHolder(c) == LetGo(c) /\ UNCHANGED <<dying, thread>>

Kill(c) ==
  /\ dying' = [dying EXCEPT ![c] = TRUE]
  /\ UNCHANGED <<shared, deletions, thread>>

ThreadAlive(c) == thread[c] \in {"suspended", "running", "released"}

\* What IsAlive of a holder may answer from its copy of the handle. Deleting
\* the object closes the handle; the answer is then whatever was in a local
\* variable that nothing has set.
IsAlive(c) ==
  IF deletions[c] > 0 THEN {TRUE, FALSE} ELSE {ThreadAlive(c)}
=============================================================================
