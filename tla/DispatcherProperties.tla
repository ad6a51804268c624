------------------------ MODULE DispatcherProperties ------------------------
(* What the Dispatcher's threads should do together.                        *)
EXTENDS Dispatcher

Copier == [listed : BOOLEAN, mapped : BOOLEAN, requests : SUBSET Handle, busy : BOOLEAN, clogged : BOOLEAN]
JobType == [handle : 0 .. MaxHandle, script : Script, threw : BOOLEAN]
LanAnswer == [to : Lan, handle : Handle, ok : BOOLEAN]
MailAnswer == [batch : SUBSET Handle, ok : SUBSET Handle, first : SUBSET Handle, general : BOOLEAN]

(* The records of all threads are well typed. *)
TypeOK ==
    /\ inbox \subseteq Script /\ quarantine \subseteq Script
    /\ known \subseteq Script /\ toDo \subseteq Script
    /\ finished \subseteq [script : Script, error : BOOLEAN, delivered : BOOLEAN]
    /\ stamped \in [Script -> SUBSET Transport]
    /\ main \in {"idle", "clearing"} /\ cleared \in BOOLEAN
    /\ channel.lan \in Seq(LanAnswer) /\ worker.lan \in Seq(LanAnswer)
    /\ channel.mail \subseteq MailAnswer /\ worker.mail \subseteq MailAnswer
    /\ worker.pc \in {"waiting", "receiving", "handling", "emailing", "dead", "crashed"}
    /\ handle \in [Script -> 0 .. MaxHandle] /\ lastHandle \in 0 .. MaxHandle
    /\ \A s \in Script : ticket[s].req \in [Transport -> {"none", "untried", "tried", "delivered"}]
    /\ lan \in [Lan -> Copier] /\ lanJob \in [Lan -> JobType]
    /\ mail \in [running : BOOLEAN, requests : SUBSET Handle, busy : BOOLEAN, clogged : BOOLEAN]
    /\ mailJob \in [posted : SUBSET JobType, mailing : SUBSET JobType, threw : BOOLEAN]
    /\ copies \in [Script -> [Transport -> 0 .. 2]]

(***************************************************************************)
(* The names by which the main thread tells new files from old ones are     *)
(* those of the scripts the work queue still has, as long as their files    *)
(* are there: no script is handed over twice at the same time, and none is  *)
(* known that nobody works on (_knownScriptFiles, ForgetScript, and the     *)
(* assertions in TransferRequests and TransferToDoList).                    *)
(***************************************************************************)
KnownAgrees ==
    Alive => LET work == toDo \cup {s \in Script : handle[s] # NoHandle}
             IN  /\ known \subseteq work /\ work \cap inbox \subseteq known
                 /\ \A s \in toDo : handle[s] = NoHandle

(***************************************************************************)
(* The counts of a ticket are the numbers of its requests that were not     *)
(* tried ("should always be true", ScriptInfo.h).                           *)
(***************************************************************************)
RequestsTally ==
    Alive => \A s \in Script : /\ ticket[s].fwd = Cardinality(Untried(ticket[s]) \cap Lan)
                               /\ ticket[s].mail = Cardinality(Untried(ticket[s]) \cap {Email})

(***************************************************************************)
(* The copier that is busy has a script with its thread, or an answer of it *)
(* is on its way: nobody waits for a thread that waits too.  The exception  *)
(* is a thread that met an exception while it copied: Run swallows it and   *)
(* no answer is put.                                                        *)
(***************************************************************************)
BusyIsAnswered ==
    \A t \in Lan : lan[t].busy =>
        \/ lanJob[t].handle # NoHandle \/ lanJob[t].threw
        \/ \E i \in DOMAIN channel.lan : channel.lan[i].to = t
        \/ \E i \in DOMAIN worker.lan : worker.lan[i].to = t

(***************************************************************************)
(* A copier that is asked for its next script has one that is in progress   *)
(* ("PickNextRequest returned obsolete handle").                            *)
(***************************************************************************)
NoObsoleteHandle ==
    \A t \in Lan : lan[t].requests # {} => \E h \in lan[t].requests : Live(h)

(***************************************************************************)
(* A request that is pending is with the copier of its transport, tried or  *)
(* not, clogged or not, so that the next Distribute finds it.               *)
(***************************************************************************)
PendingIsQueued ==
    Alive => \A s \in Script : handle[s] # NoHandle =>
        /\ \A t \in Lan : ticket[s].req[t] \in {"untried", "tried"} =>
              lan[t].listed /\ handle[s] \in lan[t].requests
        /\ ticket[s].req[Email] \in {"untried", "tried"} =>
              \/ mail.running /\ handle[s] \in mail.requests
              \/ worker.pc = "emailing" /\ s \in worker.new

(***************************************************************************)
(* As long as the state is not cleared and headers can be marked, each      *)
(* script is copied to each transport at most once: a failed copy is tried  *)
(* again, a successful one is not.                                          *)
(***************************************************************************)
CopiedOnce == \A s \in Script, t \in Transport : copies[s][t] < 2

(***************************************************************************)
(* A file is deleted only after it was copied wherever it has to go (the    *)
(* main thread decides by the marks the work queue's thread made), unless   *)
(* some other program deletes it.                                           *)
(***************************************************************************)
DeletedIsDelivered ==
    [][\A s \in inbox \ inbox' : Vanish \/ \A t \in Route[s] : copies[s][t] > 0]_vars

(***************************************************************************)
(* The mail copier's thread is given no batch as long as its answer to the  *)
(* last one was not read: the store for answers has place for one, which    *)
(* the next answer would overwrite (EmailCopierReadyStore).                 *)
(***************************************************************************)
AnswerIsRead ==
    channel.mail \cup worker.mail # {} => mailJob.posted \cup mailJob.mailing = {}

(* s has to be copied by a copier whose thread swallowed an exception, and   *)
(* which therefore is taken for busy.                                       *)
WaitsForever(s) ==
    \/ \E t \in Lan : ticket[s].req[t] \in {"untried", "tried"} /\ lan[t].busy /\ lanJob[t].threw
    \/ ticket[s].req[Email] \in {"untried", "tried"} /\ mail.busy /\ mailJob.threw

(***************************************************************************)
(* Every script is finally delivered and deleted, or put in quarantine, as  *)
(* long as copies fail only so many times: failed ones are tried again at   *)
(* a timeout, or when other scripts come.  Only a script for a copier whose *)
(* thread swallowed an exception may wait for ever.                         *)
(***************************************************************************)
EveryScriptSettles ==
    \A s \in Script : <>(s \notin inbox \/ s \in quarantine \/ WaitsForever(s))

(***************************************************************************)
(* The main thread, which waits in ClearState without a timeout, goes on,   *)
(* unless the work queue's thread has ended by an exception.                *)
(***************************************************************************)
ClearReturns == main = "clearing" ~> (main = "idle" \/ ~Alive)
=============================================================================
