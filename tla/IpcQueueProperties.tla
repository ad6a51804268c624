------------------------ MODULE IpcQueueProperties ------------------------
EXTENDS IpcQueue

(* A conversation's object is deleted once, by whichever of its thread and   *)
(* the queue lets go of it last: not while either has it, and not never.     *)
DeletedOnce ==
  \A c \in Conv :
    /\ deletions[c] <= 1
    /\ thread[c] \in {"suspended", "running"} \/ queue.active = c => deletions[c] = 0
    /\ thread[c] \in {"released", "dead"} /\ queue.active # c => deletions[c] = 1

(* The data of the requests are deleted all at once, when the queue finds no *)
(* request waiting. No conversation that goes on uses them then, not even    *)
(* one that did not end within the hour it was given.                        *)
DataKept ==
  \A c \in Conv :
    conv[c].at \in {"greet", "listen", "lock", "executing", "wake", "last"}
      => c \in queue.requests

(* The keep-alive timer stops the server only when no conversation goes on   *)
(* and no request waits, whatever the order in which requests,               *)
(* conversations' ends and timers come.  The message that another instance    *)
(* makes a backup stops it without that question (OnBackup).                  *)
QuitsIdle ==
  window.server = "quit" =>
    /\ queue.waiting = <<>> /\ queue.taken = None
    /\ \A c \in Conv : conv[c].at \in {"none", "over"}

(***************************************************************************)
(* A command is executed in the project that its client named: "Visit      *)
(* project specified by the conversation data" (NextConversation), and a    *)
(* server that does not stay in a project leaves it "after executing        *)
(* command" (CmdMain.cpp).                                                  *)
(***************************************************************************)
ExecutesInItsProject ==
  \A c \in Conv :
    conv[c].at = "executing" /\ Project[c] # None => project = Project[c]

Waits(c) == client[c].at \in {"invited", "posted"}

\* What a client has no answer to: the server is gone; its conversation ended
\* with the command untouched, because it was killed or lost or took the
\* command before for the last; no thread could be made for its conversation.
Abandoned(c) ==
  \/ window.server # "up"
  \/ client[c].at = "posted" /\ conv[c].at = "over" /\ shm[c].type = "cmd"
  \/ client[c].at = "invited" /\ thread[c] = "none" /\ c \in queue.requests
     /\ c # queue.taken /\ \A i \in DOMAIN queue.waiting : queue.waiting[i] # c
  \/ client[c].at = "invited" /\ c \notin queue.requests
     /\ \A i \in DOMAIN window.messages : window.messages[i] # c

(* A client that waits is woken, whether its project can be visited or not,  *)
(* its command succeeds or not and whatever becomes of the conversation      *)
(* before its own: it need not wait for its timeout.                         *)
ClientsReturn == \A c \in Conv : Waits(c) ~> ~Waits(c) \/ Abandoned(c)
=============================================================================
