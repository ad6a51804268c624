----------------------------- MODULE Dispatcher -----------------------------
(***************************************************************************)
(* The Dispatcher: scripts found in the public inbox are handed by the main *)
(* thread to the work queue's thread, which gives every transport (a folder *)
(* on the local network, or the mail server) a copier with a thread of its  *)
(* own.  Copiers answer through channels on which the work queue waits.     *)
(*                                                                          *)
(* A handler of one thread is one action, or one per stretch between two    *)
(* moments at which other threads are heard.  What is delivered to projects *)
(* on this computer, the user interface and the routing itself are left     *)
(* out: a script comes with the transports it has to take (Route).          *)
(***************************************************************************)
EXTENDS Integers, Sequences, FiniteSets, SequencesExt

CONSTANTS
    Script,        \* files in the public inbox
    Lan,           \* folders scripts are copied to
    Email,         \* the mail server
    Route,         \* Route[s]: transports that script s has to take
    MaxHandle,     \* bound on the tickets transferred to the work queue
    MaxFailures,   \* bound on failed copies and refused addresses
    MaxClears,     \* bound on ClearState by the main thread
    MailResults,   \* how a batch of mail may end: subset of MailResult
    Vanishing,     \* files may be deleted by somebody else
    Throwing,      \* transports whose copier's thread may meet an exception
    Unmarkable     \* transports whose mark in a header may fail to be written

Transport == Lan \cup {Email}

(* A batch fails as a whole, or from some script on, or for some scripts     *)
(* only, or meets an address on the black list.                             *)
MailResult == {"sent", "failed", "stopped", "partly", "blacklisted"}

ASSUME DispatcherAssumption ==
    /\ IsFiniteSet(Script) /\ Script # {} /\ IsFiniteSet(Lan)
    /\ Email \notin Lan
    /\ Route \in [Script -> SUBSET Transport]
    /\ MaxHandle \in Nat /\ MaxFailures \in Nat /\ MaxClears \in Nat
    /\ MailResults \subseteq MailResult
    /\ Vanishing \in BOOLEAN
    /\ Throwing \subseteq Transport
    /\ Unmarkable \subseteq Transport

VARIABLES
    inbox,         \* files that exist
    stamped,       \* stamped[s]: transports marked as delivered in the header
    quarantine,    \* scripts the main thread ignores
    main,          \* the main thread: "idle", or "clearing" (it waits)
    known,         \* _knownScriptFiles
    toDo,          \* _toDoList
    finished,      \* _finished
    cleared,       \* _eventDone
    channel,       \* what is put for the work queue, and the event
    worker,        \* the work queue's thread: where it is, what it took
    handle,        \* handle[s]: of the ticket in progress, 0 if none
    lastHandle,
    ticket,        \* ticket[s]: requests and their counts
    lan,           \* lan[t]: copier of transport t
    lanJob,        \* lanJob[t]: what its thread copies, or that it threw
    mail,          \* the e-mail copier
    mailJob,       \* scripts posted to its thread, or mailed, or that it threw
    copies,        \* copies[s][t]: successful copies, up to 2
    budget         \* failures and clears left

shared == <<inbox, stamped, quarantine, known, toDo, finished, cleared>>
tickets == <<handle, lastHandle, ticket>>
copiers == <<lan, lanJob, mail, mailJob>>
vars == <<shared, main, channel, worker, tickets, copiers, copies, budget>>

NoHandle == 0
Handle == 1 .. MaxHandle

Live(h) == \E s \in Script : handle[s] = h
ScriptOf(h) == CHOOSE s \in Script : handle[s] = h

----------------------------------------------------------------------------
(* Script tickets *)

NoTicket == [req |-> [t \in Transport |-> "none"], fwd |-> 0, mail |-> 0, error |-> FALSE]

NewTicket(s) ==
    LET new == Route[s] \ stamped[s]
    IN  [req   |-> [t \in Transport |-> IF t \in new THEN "untried" ELSE "none"],
         fwd   |-> Cardinality(new \cap Lan),
         mail  |-> Cardinality(new \cap {Email}),
         error |-> FALSE]

Untried(k) == {t \in Transport : k.req[t] = "untried"}

(* Variant: what was tried counts as delivered. *)
TriedOrDelivered(k) == {t \in Transport : k.req[t] \in {"tried", "delivered"}}

Delivered(k) == {t \in Transport : k.req[t] = "delivered"}

AreRequestsPending(k) == \E t \in Transport : k.req[t] \in {"untried", "tried"}
AreForwardRequestsPending(k) == \E t \in Lan : k.req[t] \in {"untried", "tried"}

LeastCount == -1   \* bound on how far a count goes down

(* The count goes down whether or not the request was untried: the code      *)
(* asserts that it is not zero.                                             *)
MarkDone(k, t, ok) ==
    LET Less(n) == IF n > LeastCount THEN n - 1 ELSE n
    IN  [k EXCEPT !.req[t] = IF ok \/ @ = "delivered" THEN "delivered" ELSE "tried",
                  !.fwd  = IF t \in Lan THEN Less(@) ELSE @,
                  !.mail = IF t = Email THEN Less(@) ELSE @]

RefreshRequests(k) ==
    LET again == {t \in Transport : k.req[t] = "tried"}
    IN  [k EXCEPT !.req  = [t \in Transport |-> IF t \in again THEN "untried" ELSE @[t]],
                  !.fwd  = @ + Cardinality(again \cap Lan),
                  !.mail = @ + Cardinality(again \cap {Email})]


IsFinished(k) ==
    ~AreRequestsPending(k) \/ (k.error /\ ~AreForwardRequestsPending(k))


----------------------------------------------------------------------------
(* Copiers *)

NoCopier == [listed |-> FALSE, mapped |-> FALSE, requests |-> {}, busy |-> FALSE, clogged |-> FALSE]

NewCopier == [NoCopier EXCEPT !.listed = TRUE, !.mapped = TRUE]

NoMail == [running |-> FALSE, requests |-> {}, busy |-> FALSE, clogged |-> FALSE]

NoJob == [handle |-> NoHandle, script |-> CHOOSE s \in Script : TRUE, threw |-> FALSE]

NoMailJob == [posted |-> {}, mailing |-> {}, threw |-> FALSE]

(* The pointer in _transportMap is to a copier that was deleted. *)
IsDangling(c) == c.mapped /\ ~c.listed

(* Variant: the request is erased although the copy failed. *)
LanRequestDropped(c, h, ok) ==
    [c EXCEPT !.clogged = @ \/ ~ok, !.requests = @ \ {h}, !.busy = FALSE]

(* Variant: a request that was copied is not erased. *)
LanRequestKept(c, h, ok) == [c EXCEPT !.clogged = @ \/ ~ok, !.busy = FALSE]

(* Variant: a copier whose copy failed stays busy. *)
LanRequestHeld(c, h, ok) ==
    [c EXCEPT !.clogged = @ \/ ~ok, !.requests = IF ok THEN @ \ {h} ELSE @, !.busy = ~ok]

LanRequestDone(c, h, ok) ==
    LET clogged == c.clogged \/ ~ok
    IN  [c EXCEPT !.clogged = clogged,
                  !.requests = IF clogged THEN @ ELSE @ \ {h},
                  !.busy = FALSE]

(* Variant: clogged copiers are never tried again *)
LeaveClogged(c) == c

UnclogLan(c) == [c EXCEPT !.clogged = FALSE]

(* RemoveTransport *)
Removed(c) == NoCopier

(* Killed and erased from the list, but not from the map (StartCopying). *)
RemovedFromList(c) == [NoCopier EXCEPT !.mapped = c.mapped]

Init ==
    /\ inbox = Script
    /\ stamped = [s \in Script |-> {}]
    /\ quarantine = {} /\ known = {} /\ toDo = {} /\ finished = {}
    /\ main = "idle" /\ cleared = FALSE
    /\ channel = [event |-> FALSE, lan |-> <<>>, mail |-> {}, reset |-> FALSE, clear |-> FALSE]
    /\ worker = [pc |-> "waiting", work |-> FALSE, lan |-> <<>>, mail |-> {}, clear |-> FALSE,
                 new |-> {}]
    /\ handle = [s \in Script |-> NoHandle] /\ lastHandle = 0
    /\ ticket = [s \in Script |-> NoTicket]
    /\ lan = [t \in Lan |-> NoCopier] /\ lanJob = [t \in Lan |-> NoJob]
    /\ mail = NoMail /\ mailJob = NoMailJob
    /\ copies = [s \in Script |-> [t \in Transport |-> 0]]
    /\ budget = [failures |-> MaxFailures, clears |-> MaxClears]

----------------------------------------------------------------------------
(* The main thread *)

Alive == worker.pc \notin {"dead", "crashed"}

(* New files get tickets.  A script that was delivered to everybody is       *)
(* deleted at once.                                                         *)
ProcessInbox ==
    LET new  == inbox \ (known \cup quarantine)
        done == {s \in new : Route[s] \subseteq stamped[s]}
    IN  /\ main = "idle" /\ Alive
        /\ new # {}
        /\ lastHandle + Cardinality(toDo \cup (new \ done)) <= MaxHandle
        /\ inbox' = inbox \ done
        /\ known' = known \cup (new \ done)
        /\ toDo' = toDo \cup (new \ done)
        /\ channel' = IF new = done THEN channel
                                    ELSE [channel EXCEPT !.reset = TRUE, !.event = TRUE]
        /\ UNCHANGED <<stamped, quarantine, finished, cleared, main, worker, tickets, copiers,
                       copies, budget>>

(* In memory the first recipient that could not be marked counts as marked.  *)
(* A script that is delivered is then deleted all the same, or the user is   *)
(* asked, and it is deleted or put in quarantine.                           *)
OnFinishScripts ==
    LET marked   == {s \in {f.script : f \in finished} : Route[s] \subseteq stamped[s]}
        unmarked == {f.script : f \in {g \in finished : g.delivered}} \ marked
    IN  /\ main = "idle" /\ Alive
        /\ finished # {}
        /\ \E deleted \in SUBSET unmarked :
              /\ quarantine' = quarantine \cup {f.script : f \in {g \in finished : g.error}}
                                          \cup (unmarked \ deleted)
              /\ inbox' = inbox \ (marked \cup deleted)
              /\ \E forgotten \in SUBSET deleted : known' = known \ (marked \cup forgotten)
        /\ finished' = {}
        /\ UNCHANGED <<stamped, toDo, cleared, main, channel, worker, tickets, copiers, copies,
                       budget>>

(* ClearCurrentDispatchState: the main thread waits for the work queue. *)
ClearState ==
    /\ main = "idle" /\ Alive
    /\ budget.clears > 0
    /\ budget' = [budget EXCEPT !.clears = @ - 1]
    /\ quarantine' = {}
    /\ channel' = [channel EXCEPT !.clear = TRUE, !.event = TRUE]
    /\ main' = "clearing"
    /\ UNCHANGED <<inbox, stamped, known, toDo, finished, cleared, worker, tickets, copiers, copies>>

(* It goes on with UnIgnore, which makes the work queue work as a reset of   *)
(* its timeout does.                                                        *)
StateCleared ==
    /\ main = "clearing" /\ worker.pc # "crashed"
    /\ cleared
    /\ cleared' = FALSE
    /\ main' = "idle"
    /\ channel' = [channel EXCEPT !.reset = TRUE, !.event = TRUE]
    /\ UNCHANGED <<inbox, stamped, quarantine, known, toDo, finished, worker, tickets, copiers,
                   copies, budget>>

(* A file is deleted behind the Dispatcher's back. *)
Vanish ==
    /\ worker.pc # "crashed"
    /\ \E s \in {x \in inbox : Vanishing} : inbox' = inbox \ {s}
    /\ UNCHANGED <<stamped, quarantine, known, toDo, finished, cleared, main, channel, worker,
                   tickets, copiers, copies, budget>>

----------------------------------------------------------------------------
(* The copiers' threads *)

Copied(s, t) == [copies EXCEPT ![s][t] = IF @ < 2 THEN @ + 1 ELSE @]

LanCopy(t) ==
    LET job == lanJob[t]
    IN  /\ worker.pc # "crashed"
        /\ job.handle # NoHandle
        /\ \E ok \in BOOLEAN :
              /\ ok => job.script \in inbox
              /\ ~ok /\ job.script \in inbox => budget.failures > 0
              /\ copies' = IF ok THEN Copied(job.script, t) ELSE copies
              /\ budget' = IF ok \/ job.script \notin inbox THEN budget
                           ELSE [budget EXCEPT !.failures = @ - 1]
              /\ channel' = [channel EXCEPT !.event = TRUE,
                    !.lan = Append(@, [to |-> t, handle |-> job.handle, ok |-> ok])]
        /\ lanJob' = [lanJob EXCEPT ![t] = NoJob]
        /\ UNCHANGED <<shared, main, worker, tickets, lan, mail, mailJob>>

(* The thread gives up: no answer is put, and the copier stays busy.         *)
LanThrows(t) ==
    /\ worker.pc # "crashed"
    /\ lanJob[t].handle # NoHandle /\ t \in Throwing
    /\ budget.failures > 0
    /\ budget' = [budget EXCEPT !.failures = @ - 1]
    /\ lanJob' = [lanJob EXCEPT ![t] = [NoJob EXCEPT !.threw = TRUE]]
    /\ UNCHANGED <<shared, main, channel, worker, tickets, lan, mail, mailJob, copies>>

MailStart ==
    /\ worker.pc # "crashed"
    /\ mailJob.mailing = {} /\ mailJob.posted # {}
    /\ mailJob' = [NoMailJob EXCEPT !.mailing = mailJob.posted]
    /\ UNCHANGED <<shared, main, channel, worker, tickets, lan, lanJob, mail, copies, budget>>

(* The store for answers has place for one. *)
PutMail(m) == channel' = [channel EXCEPT !.event = TRUE, !.mail = {m}]

Nothing == [batch |-> {}, ok |-> {}, first |-> {}, general |-> FALSE]

(* An address of one script is on the black list: an empty answer is put in  *)
(* the middle of the batch.                                                 *)
MailBlacklisted ==
    /\ worker.pc # "crashed"
    /\ mailJob.mailing # {} /\ "blacklisted" \in MailResults
    /\ budget.failures > 0
    /\ budget' = [budget EXCEPT !.failures = @ - 1]
    /\ PutMail(Nothing)
    /\ UNCHANGED <<shared, main, worker, tickets, copiers, copies>>

(* How a batch may end: ok is what was sent, first what was sent before the  *)
(* first failure.  In a general failure nothing is.  After a time-out, or   *)
(* when a file cannot be copied, the rest is not tried; after other errors  *)
(* it is.                                                                   *)
Outcome(jobs) ==
    LET batch == {j.handle : j \in jobs}
        there == {j.handle : j \in {i \in jobs : i.script \in inbox}}
    IN  {o \in [batch : {batch}, ok : SUBSET there, first : SUBSET there, general : BOOLEAN] :
            /\ o.first \subseteq o.ok
            /\ IF o.ok = batch THEN o.first = batch /\ ~o.general /\ "sent" \in MailResults
               ELSE IF o.general THEN o.ok = {} /\ "failed" \in MailResults
               ELSE IF o.first = o.ok THEN "stopped" \in MailResults \/ there # batch
               ELSE "partly" \in MailResults}

MailDone ==
    LET jobs == mailJob.mailing
    IN  /\ worker.pc # "crashed"
        /\ jobs # {}
        /\ \E o \in Outcome(jobs) :
              LET failure == o.ok # {j.handle : j \in {i \in jobs : i.script \in inbox}}
                  sent == {j.script : j \in {i \in jobs : i.handle \in o.ok}}
              IN  /\ failure => budget.failures > 0
                  /\ budget' = IF failure THEN [budget EXCEPT !.failures = @ - 1] ELSE budget
                  /\ copies' = [s \in Script |-> IF s \in sent THEN Copied(s, Email)[s] ELSE copies[s]]
                  /\ PutMail(o)
        /\ mailJob' = [mailJob EXCEPT !.mailing = {}]
        /\ UNCHANGED <<shared, main, worker, tickets, lan, lanJob, mail>>

(* The thread gives up at some script of the batch: no answer is put.        *)
MailThrows ==
    LET jobs == mailJob.mailing
    IN  /\ worker.pc # "crashed"
        /\ jobs # {} /\ Email \in Throwing
        /\ budget.failures > 0
        /\ budget' = [budget EXCEPT !.failures = @ - 1]
        /\ \E sent \in SUBSET {j \in jobs : j.script \in inbox} \ {jobs} :
              copies' = [s \in Script |->
                  IF s \in {j.script : j \in sent} THEN Copied(s, Email)[s] ELSE copies[s]]
        /\ mailJob' = [mailJob EXCEPT !.mailing = {}, !.threw = TRUE]
        /\ UNCHANGED <<shared, main, channel, worker, tickets, lan, lanJob, mail>>

----------------------------------------------------------------------------
(* The work queue: waiting and receiving *)

(* By an event or by timeout; after a timeout there is work to do. *)
Wake ==
    /\ worker.pc = "waiting"
    /\ worker' = [worker EXCEPT !.pc = "receiving", !.work = ~channel.event]
    /\ channel' = [channel EXCEPT !.event = FALSE]
    /\ UNCHANGED <<shared, main, tickets, copiers, copies, budget>>

(* Variant: a request to clear that comes with an answer is lost. *)
ReceiveOne ==
    /\ worker.pc = "receiving"
    /\ worker' = [worker EXCEPT !.pc = "handling", !.work = @ \/ channel.reset, !.lan = channel.lan,
                     !.mail = channel.mail, !.clear = channel.clear /\ channel.lan = <<>>]
    /\ channel' = [channel EXCEPT !.lan = <<>>, !.mail = {}, !.reset = FALSE, !.clear = FALSE]
    /\ UNCHANGED <<shared, main, tickets, copiers, copies, budget>>

(* Everything is taken under the lock and then handled in this order:        *)
(* copiers' answers, clearing, work.                                        *)
Receive ==
    /\ worker.pc = "receiving"
    /\ worker' = [worker EXCEPT !.pc = "handling", !.work = @ \/ channel.reset,
                     !.lan = channel.lan, !.mail = channel.mail, !.clear = channel.clear]
    /\ channel' = [channel EXCEPT !.lan = <<>>, !.mail = {}, !.reset = FALSE, !.clear = FALSE]
    /\ UNCHANGED <<shared, main, tickets, copiers, copies, budget>>

----------------------------------------------------------------------------
(* The work queue: answers of copiers *)

Finished(new, F) ==
    {[script |-> s, error |-> new[s].error, delivered |-> ~AreRequestsPending(new[s])] : s \in F}

(* Delivered requests of the scripts P are marked in their headers, in some  *)
(* order and up to the first failure.                                       *)
Stamp(new, P) ==
    \E lost \in [P -> SUBSET Unmarkable] :
        stamped' = [s \in Script |->
            IF s \in P THEN stamped[s] \cup (Delivered(new[s]) \ lost[s]) ELSE stamped[s]]

(* Variant: a finished script stays known. *)
SettleUnforgotten(new, P, F) ==
    /\ ticket' = [s \in Script |-> IF s \in F THEN NoTicket ELSE new[s]]
    /\ handle' = [s \in Script |-> IF s \in F THEN NoHandle ELSE handle[s]]
    /\ Stamp(new, P)
    /\ finished' = finished \cup Finished(new, F)
    /\ UNCHANGED <<inbox, quarantine, toDo, known, cleared, lastHandle>>

(* Tickets become new.  Those of P made progress; the scripts of F are       *)
(* finished: the main thread is told, and no longer knows them.             *)
SettleTickets(new, P, F) ==
    /\ ticket' = [s \in Script |-> IF s \in F THEN NoTicket ELSE new[s]]
    /\ handle' = [s \in Script |-> IF s \in F THEN NoHandle ELSE handle[s]]
    /\ Stamp(new, P)
    /\ known' = known \ F
    /\ finished' = finished \cup Finished(new, F)
    /\ UNCHANGED <<inbox, quarantine, toDo, cleared, lastHandle>>

(* An exception ends the thread.  The copiers are destroyed with it, but not *)
(* the threads at work, which then answer to a store that is gone.          *)
Dies ==
    LET working == mailJob.mailing # {} \/ \E t \in Lan : lanJob[t].handle # NoHandle
    IN  /\ \E pc \in IF working THEN {"dead", "crashed"} ELSE {"dead"} :
              worker' = [worker EXCEPT !.pc = pc]
        /\ lan' = [t \in Lan |-> NoCopier]
        /\ lanJob' = [t \in Lan |-> NoJob]
        /\ mail' = NoMail
        /\ mailJob' = NoMailJob

LiveRequests(c) == {h \in c.requests : \E s \in Script : handle'[s] = h}

Job(h) == [handle |-> h, script |-> CHOOSE s \in Script : handle'[s] = h, threw |-> FALSE]

(* The copier of t, in state c, goes on with its smallest script. *)
CopyNextScript(t, c) ==
    \/ /\ c.requests = {}
       /\ lan' = [lan EXCEPT ![t] = Removed(c)]
       /\ worker' = [worker EXCEPT !.lan = Tail(@)]
       /\ UNCHANGED <<lanJob, mail, mailJob>>
    \/ /\ \E h \in LiveRequests(c) :
             /\ lan' = [lan EXCEPT ![t] = [c EXCEPT !.busy = TRUE]]
             /\ lanJob' = [lanJob EXCEPT ![t] = Job(h)]
       /\ worker' = [worker EXCEPT !.lan = Tail(@)]
       /\ UNCHANGED <<mail, mailJob>>
    \/ /\ c.requests # {} /\ LiveRequests(c) = {}
       /\ Dies

OnLanCopyDone ==
    LET m == Head(worker.lan)
        c == LanRequestDone(lan[m.to], m.handle, m.ok)
        s == ScriptOf(m.handle)
        k == MarkDone(ticket[s], m.to, m.ok)
    IN  /\ worker.pc = "handling" /\ worker.lan # <<>>
        /\ IF Live(m.handle)
           THEN /\ SettleTickets([ticket EXCEPT ![s] = k], {x \in {s} : m.ok},
                              {x \in {s} : m.ok /\ IsFinished(k)})
                /\ IF c.clogged
                   THEN /\ lan' = [lan EXCEPT ![m.to] = c]
                        /\ worker' = [worker EXCEPT !.lan = Tail(@)]
                        /\ UNCHANGED <<lanJob, mail, mailJob>>
                   ELSE CopyNextScript(m.to, c)
           ELSE /\ lan' = [lan EXCEPT ![m.to] = c]
                /\ worker' = [worker EXCEPT !.lan = Tail(@)]
                /\ UNCHANGED <<shared, tickets, lanJob, mail, mailJob>>
        /\ UNCHANGED <<main, channel, copies, budget>>

(* A copier that is removed while its thread mails leaves an answer that     *)
(* points to a deleted object.                                              *)
RemoveMail ==
    /\ mail' = NoMail
    /\ mailJob' = [mailJob EXCEPT !.posted = {}, !.threw = FALSE]
    /\ worker' = [worker EXCEPT !.mail = {}, !.pc = IF mailJob.mailing = {} THEN @ ELSE "crashed"]

(* Variant: what was sent is not erased. *)
MailRequestsKept(m) ==
    [mail EXCEPT !.clogged = @ \/ m.ok # m.batch, !.busy = @ /\ m.batch = {}]

MailRequestsDone(m) ==
    LET clogged == mail.clogged \/ m.ok # m.batch
    IN  [mail EXCEPT !.requests = IF mail.clogged THEN @ ELSE @ \ m.first,
                     !.clogged = clogged,
                     !.busy = @ /\ m.batch = {}]

OnEmailCopyDone ==
    LET m == CHOOSE x \in worker.mail : TRUE
        c == MailRequestsDone(m)
        live == {s \in Script : handle[s] \in m.batch}
        Done(s) == MarkDone([ticket[s] EXCEPT !.error = @ \/ ~(m.general \/ handle[s] \in m.ok)],
                            Email, handle[s] \in m.ok)
    IN  /\ worker.pc = "handling" /\ worker.lan = <<>> /\ worker.mail # {}
        /\ SettleTickets([s \in Script |-> IF s \in live THEN Done(s) ELSE ticket[s]], live,
                         {s \in live : IsFinished(Done(s))})
        /\ IF c.requests = {} \/ (~c.clogged /\ LiveRequests(c) = {})
           THEN RemoveMail
           ELSE /\ worker' = [worker EXCEPT !.mail = {}]
                /\ mail' = IF c.clogged THEN c
                           ELSE [c EXCEPT !.requests = LiveRequests(c), !.busy = TRUE]
                /\ mailJob' = IF c.clogged THEN mailJob
                              ELSE [mailJob EXCEPT !.posted = {Job(h) : h \in LiveRequests(c)}]
        /\ UNCHANGED <<main, channel, lan, lanJob, copies, budget>>

----------------------------------------------------------------------------
(* The work queue: clearing *)

(* Copiers forget their requests; those at rest are removed.  Answers not    *)
(* yet received are thrown away.                                            *)
HandleClear ==
    /\ worker.pc = "handling" /\ worker.lan = <<>> /\ worker.mail = {} /\ worker.clear
    /\ worker' = [worker EXCEPT !.clear = FALSE]
    /\ handle' = [s \in Script |-> NoHandle]
    /\ ticket' = [s \in Script |-> NoTicket]
    /\ channel' = [channel EXCEPT !.lan = <<>>]
    /\ lan' = [t \in Lan |-> IF ~lan[t].listed THEN lan[t]
                             ELSE IF lan[t].busy THEN [lan[t] EXCEPT !.requests = {}]
                             ELSE NoCopier]
    /\ mail' = IF mail.busy THEN [mail EXCEPT !.requests = {}] ELSE NoMail
    /\ toDo' = {} /\ known' = {}
    /\ cleared' = TRUE
    /\ UNCHANGED <<inbox, stamped, quarantine, finished, main, lastHandle, lanJob, mailJob, copies,
                   budget>>

----------------------------------------------------------------------------
(* The work queue: distributing *)

Handled ==
    worker.pc = "handling" /\ worker.lan = <<>> /\ worker.mail = {} /\ ~worker.clear

HasWork == toDo # {} \/ \E s \in Script : handle[s] # NoHandle

GoWaiting ==
    /\ Handled
    /\ ~(worker.work /\ HasWork)
    /\ worker' = [worker EXCEPT !.pc = "waiting"]
    /\ UNCHANGED <<shared, main, channel, tickets, copiers, copies, budget>>

(* The to-do list becomes tickets in progress, clogged copiers may try       *)
(* again, and requests to copy are given to the copiers.                    *)
StartForwarding ==
    LET order == SetToSeq(toDo)
        new == toDo \cap inbox
        HandleOf(s) == lastHandle + CHOOSE i \in DOMAIN order : order[i] = s
        For(t) == {HandleOf(s) : s \in {x \in new : NewTicket(x).req[t] = "untried"}}
        With(c, hs) ==
            IF hs = {} THEN c
            ELSE [(IF c.mapped THEN c ELSE NewCopier) EXCEPT !.requests = @ \cup hs]
    IN  /\ Handled /\ worker.work /\ HasWork
        /\ toDo' = {}
        /\ known' = known \ (toDo \ inbox)
        /\ lastHandle' = lastHandle + Len(order)
        /\ handle' = [s \in Script |-> IF s \in new THEN HandleOf(s) ELSE handle[s]]
        /\ ticket' = [s \in Script |-> IF s \in new THEN NewTicket(s) ELSE ticket[s]]
        /\ lan' = [t \in Lan |-> With(UnclogLan(lan[t]), For(t))]
        /\ mail' = [mail EXCEPT !.clogged = FALSE]
        /\ worker' = [worker EXCEPT !.new = new,
             !.pc = IF \E t \in Lan : IsDangling(lan[t]) /\ For(t) # {} THEN "crashed" ELSE "emailing"]
        /\ UNCHANGED <<inbox, stamped, quarantine, finished, cleared, main, channel, lanJob,
                       mailJob, copies, budget>>

Idle == {t \in Lan : lan[t].listed /\ ~lan[t].busy}

Obsolete == {t \in Idle : lan[t].requests # {} /\ LiveRequests(lan[t]) = {}}

(* One pass over the copiers of ts.  A copier without work is removed from   *)
(* the list, but not from the map.                                          *)
StartLan(ts) ==
    \E job \in [ts -> (UNION {LiveRequests(lan[t]) : t \in ts}) \cup {NoHandle}] :
        /\ \A t \in ts : IF lan[t].requests = {} THEN job[t] = NoHandle
                          ELSE job[t] \in LiveRequests(lan[t])
        /\ lan' = [t \in Lan |-> IF t \notin ts THEN lan[t]
                                 ELSE IF job[t] = NoHandle THEN RemovedFromList(lan[t])
                                 ELSE [lan[t] EXCEPT !.busy = TRUE]]
        /\ lanJob' = [t \in Lan |-> IF t \in ts /\ job[t] # NoHandle THEN Job(job[t]) ELSE lanJob[t]]

(* Scripts that go by mail.  One whose file is gone is dropped here, after   *)
(* its requests to copy were made.                                          *)
ToMail == {s \in worker.new : handle[s] # NoHandle /\ ticket[s].req[Email] = "untried"}

(* Variant: a batch is posted although the last one was not answered. *)
CanMailWhileBusy(running, requests) == running /\ requests # {}

CanMail(running, requests) == running /\ ~mail.busy /\ requests # {}

StartCopying ==
    LET gone == ToMail \ inbox
        posted == {handle[s] : s \in ToMail \cap inbox}
        requests == mail.requests \cup posted
        running == mail.running \/ posted # {}
        live == LiveRequests([requests |-> requests])
    IN  /\ worker.pc = "emailing"
        /\ known' = known \ gone
        /\ handle' = [s \in Script |-> IF s \in gone THEN NoHandle ELSE handle[s]]
        /\ worker' = [worker EXCEPT !.pc = "waiting", !.new = {}]
        /\ IF Obsolete = {}
           THEN /\ StartLan(Idle)
                /\ ticket' = [s \in Script |-> IF s \in gone THEN NoTicket ELSE RefreshRequests(ticket[s])]
                /\ IF CanMail(running, requests)
                   THEN /\ mail' = IF live = {} THEN NoMail
                                   ELSE [mail EXCEPT !.running = TRUE, !.requests = live, !.busy = TRUE]
                        /\ mailJob' = [mailJob EXCEPT !.posted = {Job(h) : h \in live}]
                   ELSE /\ mail' = [mail EXCEPT !.running = running, !.requests = requests]
                        /\ UNCHANGED mailJob
           ELSE (* an exception: what comes after the obsolete request is left out *)
                /\ \E ts \in SUBSET (Idle \ Obsolete) : StartLan(ts)
                /\ ticket' = [s \in Script |-> IF s \in gone THEN NoTicket ELSE ticket[s]]
                /\ mail' = [mail EXCEPT !.running = running, !.requests = requests]
                /\ UNCHANGED mailJob
        /\ UNCHANGED <<inbox, stamped, quarantine, toDo, finished, cleared, lastHandle, main, channel,
                       copies, budget>>

(* "Dispatcher worker thread died.  Restarting." *)
KeepAlive ==
    /\ main = "idle" /\ worker.pc = "dead"
    /\ known' = {} /\ toDo' = {} /\ finished' = {} /\ cleared' = FALSE
    /\ channel' = [event |-> FALSE, lan |-> <<>>, mail |-> {}, reset |-> FALSE, clear |-> FALSE]
    /\ worker' = [pc |-> "waiting", work |-> FALSE, lan |-> <<>>, mail |-> {}, clear |-> FALSE, new |-> {}]
    /\ handle' = [s \in Script |-> NoHandle]
    /\ ticket' = [s \in Script |-> NoTicket]
    /\ UNCHANGED <<inbox, stamped, quarantine, main, lastHandle, copiers, copies, budget>>

----------------------------------------------------------------------------
MainThread == ProcessInbox \/ OnFinishScripts \/ ClearState \/ StateCleared \/ KeepAlive

WorkQueue ==
    \/ Wake \/ Receive
    \/ OnLanCopyDone \/ OnEmailCopyDone \/ HandleClear
    \/ GoWaiting \/ StartForwarding \/ StartCopying

MailCopier == MailStart \/ MailDone

Next ==
    \/ MainThread
    \/ WorkQueue
    \/ \E t \in Lan : LanCopy(t) \/ LanThrows(t)
    \/ MailCopier \/ MailBlacklisted \/ MailThrows
    \/ Vanish

Spec == Init /\ [][Next]_vars

(* Every thread goes on as long as it can; the main thread is called again   *)
(* for changes of the folder, messages of the work queue and by timers.     *)
Fairness ==
    /\ WF_vars(ProcessInbox)
    /\ WF_vars(OnFinishScripts)
    /\ WF_vars(StateCleared)
    /\ WF_vars(WorkQueue)
    /\ \A t \in Lan : WF_vars(LanCopy(t))
    /\ WF_vars(MailCopier)

FairSpec == Spec /\ Fairness
=============================================================================
