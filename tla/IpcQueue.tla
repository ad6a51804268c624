------------------------------ MODULE IpcQueue ------------------------------
(* The server mode of Code Co-op: the window's thread (ServerCtrl.cpp), the  *)
(* thread of the queue of conversations (IpcQueue.cpp), the thread of each   *)
(* conversation (IpcConversation.cpp) and its client in another process      *)
(* (SccDll/IpcConversation.cpp). A conversation, its client, its shared      *)
(* buffer, the two events of it and its active object share one name.        *)
EXTENDS ActiveObject, Sequences

CONSTANTS
  Project,        \* the project each client names, None for -1
  Commands,       \* how many commands each client has to post
  Patient,        \* clients whose commands have no timeout
  Gui,            \* conversations whose commands are to be continued in the GUI
  StayInProject,  \* the server's stayinproject option
  None

ASSUME IpcAssumption ==
  /\ Conv \cap {None, "terminate", "abort"} = {}
  /\ Commands \in [Conv -> Nat \ {0}]
  /\ DOMAIN Project = Conv
  /\ Patient \subseteq Conv /\ Gui \subseteq Conv
  /\ StayInProject \in BOOLEAN

VARIABLES
  window,   \* the server's window: its messages and timers, and how it ended
  project,  \* the project the model is in
  queue,    \* the queue's members, and where its thread stands (at)
  conv,     \* for each conversation its members and where its thread stands
  shm,      \* for each conversation the shared buffer and the two events
  client    \* for each client where it stands and how many commands it sent

vars == <<window, project, queue, conv, shm, client, objectVars>>

QueueAt ==
  {"wait", "detach", "die", "flush", "join", "release", "check", "next", "visit",
   "create", "share", "resume", "report", "ended"}
ConvAt ==
  {"none", "greet", "listen", "lock", "executing", "wake", "last", "finish", "notify", "leave",
   "over"}
ConvOrNone == Conv \cup {None}

WindowType ==
  [server : {"up", "quit", "backup", "aborted", "crashed"}, messages : Seq(Conv \cup {"terminate", "abort"}),
   keepAlive : BOOLEAN, pendingMerge : BOOLEAN]
QueueType ==
  [at : QueueAt, event : BOOLEAN, kill : BOOLEAN, idle : BOOLEAN, timed : BOOLEAN,
   waiting : Seq(Conv), requests : SUBSET Conv, taken : ConvOrNone,
   active : ConvOrNone, handle : ConvOrNone, stayInGui : BOOLEAN]
ConvType == [at : ConvAt, starter : BOOLEAN, gui : BOOLEAN]
ShmType ==
  [type : {"unknown", "invitation", "ack", "cmd", "error"}, last : BOOLEAN,
   server : BOOLEAN, client : BOOLEAN]
ClientType == [at : {"idle", "invited", "talking", "posted", "done"}, sent : Nat]

\* Every variable has its type; the pointers point to conversations.
TypeOK ==
  /\ ObjectTypeOK
  /\ window \in WindowType
  /\ queue \in QueueType
  /\ conv \in [Conv -> ConvType]
  /\ shm \in [Conv -> ShmType]
  /\ client \in [Conv -> ClientType]

Init ==
  /\ ObjectInit
  /\ window = [server |-> "up", messages |-> <<>>, keepAlive |-> TRUE, pendingMerge |-> FALSE]
  /\ project = None
  /\ queue = [at |-> "wait", event |-> FALSE, kill |-> FALSE, idle |-> TRUE, timed |-> FALSE,
              waiting |-> <<>>, requests |-> {}, taken |-> None, active |-> None,
              handle |-> None, stayInGui |-> FALSE]
  /\ conv = [c \in Conv |-> [at |-> "none", starter |-> FALSE, gui |-> FALSE]]
  /\ shm = [c \in Conv |-> [type |-> "unknown", last |-> FALSE,
                            server |-> FALSE, client |-> FALSE]]
  /\ client = [c \in Conv |-> [at |-> "idle", sent |-> 0]]

\* The queue's lock is held over several steps only here; VisitProject gives it
\* up while it waits for the model.
QueueFree == queue.at \notin {"create", "share", "resume"}

\* The model is locked while a command is executed.
ModelFree == \A c \in Conv : conv[c].at # "executing"

-----------------------------------------------------------------------------
(* The client (SccDll/IpcConversation.cpp). *)

\* FindServer: there is a server's window, the invitation is posted to it.
Invite(c) ==
  /\ client[c].at = "idle" /\ window.server = "up"
  /\ client' = [client EXCEPT ![c].at = "invited"]
  /\ shm' = [shm EXCEPT ![c].type = "invitation"]
  /\ window' = [window EXCEPT !.messages = Append(@, c)]
  /\ UNCHANGED <<project, queue, conv, objectVars>>

\* The wait for the acknowledgment ends, answered or after ten seconds. Without
\* an acknowledgment the client overwrites the buffer with an error.
EndInvitation(c) ==
  LET acked == shm[c].client /\ shm[c].type = "ack" IN
  /\ client[c].at = "invited"
  /\ shm' = [shm EXCEPT ![c].client = FALSE, ![c].type = IF acked THEN @ ELSE "error"]
  /\ client' = [client EXCEPT ![c].at = IF acked THEN "talking" ELSE "done"]
  /\ UNCHANGED <<window, project, queue, conv, objectVars>>

\* PostCmd, up to the wait.
Post(c) ==
  /\ client[c].at = "talking"
  /\ client' = [client EXCEPT ![c].at = "posted", ![c].sent = @ + 1]
  /\ shm' = [shm EXCEPT ![c].type = "cmd", ![c].server = TRUE,
                        ![c].last = client[c].sent + 1 = Commands[c]]
  /\ UNCHANGED <<window, project, queue, conv, objectVars>>

\* The wait for the command's result ends; a patient client has no timeout.
EndCommand(c) ==
  /\ client[c].at = "posted"
  /\ shm[c].client \/ c \notin Patient
  /\ shm' = [shm EXCEPT ![c].client = FALSE]
  /\ client' = [client EXCEPT ![c].at =
       IF shm[c].client /\ shm[c].type = "ack" /\ client[c].sent < Commands[c]
       THEN "talking" ELSE "done"]
  /\ UNCHANGED <<window, project, queue, conv, objectVars>>

-----------------------------------------------------------------------------
(* The window (ServerCtrl.cpp). *)

Message(m) == window.messages # <<>> /\ Head(window.messages) = m
Handled == [window EXCEPT !.messages = Tail(@)]

\* InitiateConv. The client may have withdrawn its invitation: then there is no
\* client's event, which IsValid does not allow for, or the buffer cannot be
\* opened and the exception leaves a handler that promises none.
OnInitiate(c) ==
  /\ Message(c)
  /\ QueueFree
  /\ IF shm[c].type = "invitation"
     THEN /\ queue' = [queue EXCEPT !.waiting = Append(@, c), !.requests = @ \cup {c},
                                    !.idle = FALSE, !.event = TRUE]
          /\ window' = Handled
     ELSE /\ \/ window' = Handled
             \/ window' = [Handled EXCEPT !.server = "crashed"]
          /\ UNCHANGED queue
  /\ UNCHANGED <<project, conv, shm, client, objectVars>>

\* OnQueueDone. Both timers stay as they are when there is work again.
OnTerminate ==
  /\ Message("terminate")
  /\ window' = IF queue.idle
               THEN [Handled EXCEPT !.keepAlive = queue.stayInGui,
                                    !.pendingMerge = @ \/ ~queue.stayInGui]
               ELSE Handled
  /\ UNCHANGED <<project, queue, conv, shm, client, objectVars>>

OnAbort ==
  /\ Message("abort")
  /\ window' = [Handled EXCEPT !.server = "aborted"]
  /\ UNCHANGED <<project, queue, conv, shm, client, objectVars>>

\* Another instance makes a backup: the server quits at once, idle or not.
OnBackup ==
  /\ window' = [window EXCEPT !.server = "backup"]
  /\ UNCHANGED <<project, queue, conv, shm, client, objectVars>>

\* The keep-alive timer: it comes again when the queue is not idle.
OnKeepAlive ==
  /\ window.keepAlive /\ queue.idle
  /\ window' = [window EXCEPT !.server = "quit"]
  /\ UNCHANGED <<project, queue, conv, shm, client, objectVars>>

\* The other timer: when no merge is pending, or after twenty times, the project
\* is left, unless the server is to stay, and the keep-alive timer set.
OnPendingMerge ==
  /\ window.pendingMerge /\ ModelFree
  /\ window' = [window EXCEPT !.pendingMerge = FALSE, !.keepAlive = TRUE]
  /\ project' = IF StayInProject THEN project ELSE None
  /\ UNCHANGED <<queue, conv, shm, client, objectVars>>

-----------------------------------------------------------------------------
(* The queue's thread (IpcQueue.cpp). *)

\* The wait ends with the event or, when there is a timeout, without it; then
\* the conversation is killed as if it had finished. The mark is used up, and
\* _activeConv.reset () kills the thread if there is one and it is alive.
Wait ==
  /\ queue.at = "wait"
  /\ queue.event \/ queue.timed
  /\ queue' = [queue EXCEPT !.event = FALSE, !.kill = FALSE,
       !.at = IF queue.kill \/ ~queue.event
              THEN IF queue.active # None /\ ThreadAlive(queue.active)
                   THEN "detach" ELSE "release"
              ELSE IF queue.active = None THEN "next" ELSE "wait"]
  /\ UNCHANGED <<window, project, conv, shm, client, objectVars>>

\* Detach waits for the lock that the conversation holds while it notifies.
Detach ==
  /\ queue.at = "detach" /\ conv[queue.active].at # "notify"
  /\ conv' = [conv EXCEPT ![queue.active].starter = FALSE]
  /\ queue' = [queue EXCEPT !.at = "die"]
  /\ UNCHANGED <<window, project, shm, client, objectVars>>

MarkDying ==
  /\ queue.at = "die"
  /\ Kill(queue.active)
  /\ queue' = [queue EXCEPT !.at = "flush"]
  /\ UNCHANGED <<window, project, conv, shm, client>>

FlushThread ==
  /\ queue.at = "flush"
  /\ shm' = [shm EXCEPT ![queue.active].server = TRUE]
  /\ queue' = [queue EXCEPT !.at = "join"]
  /\ UNCHANGED <<window, project, conv, client, objectVars>>

\* WaitForDeath. Only a command can take the hour that is allowed for it.
WaitForDeath ==
  /\ queue.at = "join"
  /\ ~ThreadAlive(queue.active) \/ conv[queue.active].at = "executing"
  /\ queue' = [queue EXCEPT !.at = "release"]
  /\ UNCHANGED <<window, project, conv, shm, client, objectVars>>

Release ==
  /\ queue.at = "release"
  /\ IF queue.active = None THEN UNCHANGED objectVars ELSE ReleaseByHolder(queue.active)
  /\ queue' = [queue EXCEPT !.active = None, !.at = "check"]
  /\ UNCHANGED <<window, project, conv, shm, client>>

\* Variant: whether the thread has died is not asked.
CheckNothing ==
  /\ queue.at = "check"
  /\ queue' = [queue EXCEPT !.at = "next"]
  /\ UNCHANGED <<window, project, conv, shm, client, objectVars>>

\* Is the thread still alive? Then the server gives up.
Check ==
  /\ queue.at = "check"
  /\ \E alive \in IF queue.handle = None THEN {FALSE} ELSE IsAlive(queue.handle) :
       /\ queue' = [queue EXCEPT !.at = IF alive THEN "ended" ELSE "next"]
       /\ window' = IF alive THEN [window EXCEPT !.messages = Append(@, "abort")] ELSE window
  /\ UNCHANGED <<project, conv, shm, client, objectVars>>

\* NextConversation, up to the visit of the project, under the queue's lock.
TakeRequest ==
  /\ queue.at = "next" /\ queue.waiting # <<>>
  /\ LET c == Head(queue.waiting) IN
     queue' = [queue EXCEPT !.taken = c, !.waiting = Tail(@),
                            !.at = IF Project[c] = None THEN "create" ELSE "visit"]
  /\ UNCHANGED <<window, project, conv, shm, client, objectVars>>

NoMoreRequests ==
  /\ queue.at = "next" /\ queue.waiting = <<>>
  /\ queue' = [queue EXCEPT !.requests = {}, !.idle = TRUE, !.at = "report"]
  /\ UNCHANGED <<window, project, conv, shm, client, objectVars>>

\* Variant: the queue becomes idle when the window is told, without the lock.
ReportIdle ==
  /\ queue.at = "report"
  /\ window' = [window EXCEPT !.messages = Append(@, "terminate")]
  /\ queue' = [queue EXCEPT !.timed = FALSE, !.idle = TRUE, !.at = "wait"]
  /\ UNCHANGED <<project, conv, shm, client, objectVars>>

\* The lock is free again when the window is told.
Report ==
  /\ queue.at = "report"
  /\ window' = [window EXCEPT !.messages = Append(@, "terminate")]
  /\ queue' = [queue EXCEPT !.timed = FALSE, !.at = "wait"]
  /\ UNCHANGED <<project, conv, shm, client, objectVars>>

\* VisitProject, with the model locked and the queue not.
Visit ==
  /\ queue.at = "visit" /\ ModelFree
  /\ project' = Project[queue.taken]
  /\ queue' = [queue EXCEPT !.at = "create"]
  /\ UNCHANGED <<window, conv, shm, client, objectVars>>

\* Variant: the conversation starts nevertheless.
VisitAnyway ==
  /\ queue.at = "visit" /\ ModelFree
  /\ project' \in {project, None}
  /\ queue' = [queue EXCEPT !.at = "create"]
  /\ UNCHANGED <<window, conv, shm, client, objectVars>>

\* It fails, by its result or an exception, and leaves the model in the project
\* it was in or in none. The client is woken and finds no acknowledgment.
FailVisit ==
  /\ queue.at = "visit" /\ ModelFree
  /\ project' \in {project, None}
  /\ shm' = [shm EXCEPT ![queue.taken].client = TRUE]
  /\ queue' = [queue EXCEPT !.taken = None, !.at = "next"]
  /\ UNCHANGED <<window, conv, client, objectVars>>

\* NextConversation makes the conversation.
Create ==
  /\ queue.at = "create"
  /\ NewObject(queue.taken)
  /\ conv' = [conv EXCEPT ![queue.taken].starter = TRUE]
  /\ queue' = [queue EXCEPT !.kill = FALSE, !.timed = TRUE, !.taken = None,
                            !.active = queue.taken, !.at = "share"]
  /\ UNCHANGED <<window, project, shm, client>>

\* Variant: the timeout is set only when there is a conversation.
FailUntimed ==
  /\ queue.at = "create"
  /\ queue' = [queue EXCEPT !.kill = FALSE, !.taken = None, !.at = "wait"]
  /\ UNCHANGED <<window, project, conv, shm, client, objectVars>>

\* There is no thread to be had: the exception loses the request, and the queue
\* goes on after the timeout.
FailCreate ==
  /\ queue.at = "create"
  /\ queue' = [queue EXCEPT !.kill = FALSE, !.timed = TRUE, !.taken = None, !.at = "wait"]
  /\ UNCHANGED <<window, project, conv, shm, client, objectVars>>

\* StartThread, in two steps.
Share ==
  /\ queue.at = "share"
  /\ Acquire(queue.active)
  /\ queue' = [queue EXCEPT !.at = "resume"]
  /\ UNCHANGED <<window, project, conv, shm, client>>

Start ==
  /\ queue.at = "resume"
  /\ Resume(queue.active)
  /\ conv' = [conv EXCEPT ![queue.active].at = "greet"]
  /\ queue' = [queue EXCEPT !.handle = queue.active, !.at = "wait"]
  /\ UNCHANGED <<window, project, shm, client>>

-----------------------------------------------------------------------------
(* A conversation's thread (IpcConversation.cpp). *)

Goes(c, from, to) ==
  /\ conv[c].at = from
  /\ conv' = [conv EXCEPT ![c].at = to]

\* Acknowledges the invitation.
Greet(c) ==
  /\ Goes(c, "greet", "listen")
  /\ shm' = [shm EXCEPT ![c].type = "ack", ![c].client = TRUE]
  /\ UNCHANGED <<window, project, queue, client, objectVars>>

\* The wait for a command ends, with the event or after five seconds. Whether the
\* object is dying is asked before the wait and after it, to the same effect.
Listen(c) ==
  /\ Goes(c, "listen", IF dying[c] THEN "leave"
                       ELSE IF shm[c].server /\ shm[c].type = "cmd" THEN "lock" ELSE "wake")
  /\ shm' = [shm EXCEPT ![c].server = FALSE]
  /\ UNCHANGED <<window, project, queue, client, objectVars>>

\* The model is locked for the duration of the command.
Execute(c) ==
  /\ ModelFree
  /\ conv[c].at = "lock"
  /\ conv' = [conv EXCEPT ![c].at = "executing", ![c].gui = c \in Gui]
  /\ UNCHANGED <<window, project, queue, shm, client, objectVars>>

\* It is acknowledged, or its name unknown.
Executed(c) ==
  /\ Goes(c, "executing", "wake")
  /\ \E type \in {"ack", "error"} : shm' = [shm EXCEPT ![c].type = type]
  /\ UNCHANGED <<window, project, queue, client, objectVars>>

\* An exception ends the conversation: the client is told and woken.
FailCommand(c) ==
  /\ Goes(c, "executing", "finish")
  /\ shm' = [shm EXCEPT ![c].type = "error", ![c].client = TRUE]
  /\ UNCHANGED <<window, project, queue, client, objectVars>>

\* An exception of an unknown kind: the data is not touched again.
LoseCommand(c) ==
  /\ Goes(c, "executing", "finish")
  /\ UNCHANGED <<window, project, queue, shm, client, objectVars>>

WakeupClient(c) ==
  /\ Goes(c, "wake", "last")
  /\ shm' = [shm EXCEPT ![c].client = TRUE]
  /\ UNCHANGED <<window, project, queue, client, objectVars>>

\* Only then the conversation reads from the buffer whether it goes on.
IsLast(c) ==
  /\ Goes(c, "last", IF shm[c].last THEN "finish" ELSE "listen")
  /\ UNCHANGED <<window, project, queue, shm, client, objectVars>>

\* OnFinishConv, unless detached, in two steps under the conversation's lock.
Finish(c) ==
  /\ Goes(c, "finish", IF conv[c].starter THEN "notify" ELSE "leave")
  /\ queue' = IF conv[c].starter
              THEN [queue EXCEPT !.kill = TRUE, !.stayInGui = @ \/ conv[c].gui]
              ELSE queue
  /\ UNCHANGED <<window, project, shm, client, objectVars>>

Notify(c) ==
  /\ Goes(c, "notify", "leave")
  /\ queue' = [queue EXCEPT !.event = TRUE]
  /\ UNCHANGED <<window, project, shm, client, objectVars>>

\* ThreadEntry lets go of the object.
Leave(c) ==
  /\ Goes(c, "leave", "over")
  /\ ReleaseByThread(c)
  /\ UNCHANGED <<window, project, queue, shm, client>>

ThreadDies(c) ==
  /\ ThreadEnds(c)
  /\ UNCHANGED <<window, project, queue, conv, shm, client>>

-----------------------------------------------------------------------------

ClientStep(c) == Invite(c) \/ EndInvitation(c) \/ Post(c) \/ EndCommand(c)

WindowStep ==
  \/ \E c \in Conv : OnInitiate(c)
  \/ OnTerminate \/ OnAbort \/ OnBackup \/ OnKeepAlive \/ OnPendingMerge

QueueStep ==
  \/ Wait \/ Detach \/ MarkDying \/ FlushThread \/ WaitForDeath \/ Release \/ Check
  \/ TakeRequest \/ NoMoreRequests \/ Report \/ Visit \/ FailVisit
  \/ Create \/ FailCreate \/ Share \/ Start

ConvStep(c) ==
  \/ Greet(c) \/ Listen(c)
  \/ Execute(c) \/ Executed(c) \/ FailCommand(c) \/ LoseCommand(c)
  \/ WakeupClient(c) \/ IsLast(c) \/ Finish(c) \/ Notify(c) \/ Leave(c) \/ ThreadDies(c)

\* The server's threads end with its process; the clients do not.
Next ==
  \/ \E c \in Conv : ClientStep(c)
  \/ /\ window.server = "up"
     /\ WindowStep \/ QueueStep \/ \E c \in Conv : ConvStep(c)

Spec == Init /\ [][Next]_vars

\* The server's threads are scheduled, its messages handled, and a client that
\* was woken runs. No client has to invite, to post or to give up, and no timer
\* of the window has to come.
Fairness ==
  /\ WF_vars(window.server = "up" /\ (OnTerminate \/ OnAbort \/ \E c \in Conv : OnInitiate(c)))
  /\ WF_vars(window.server = "up" /\ QueueStep)
  /\ \A c \in Conv : /\ WF_vars(window.server = "up" /\ ConvStep(c))
                     /\ WF_vars(shm[c].client /\ (EndInvitation(c) \/ EndCommand(c)))

FairSpec == Spec /\ Fairness
=============================================================================
