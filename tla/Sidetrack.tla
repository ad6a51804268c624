----------------------------- MODULE Sidetrack -----------------------------
(***************************************************************************)
(* How one member gets the scripts it misses.  The sidetrack remembers whom *)
(* it asked for each of them, and stores the chunks of those that come in   *)
(* parts.  Mail is unpacked in a transaction, which is aborted and tried    *)
(* again without the file when one cannot be read; the chunks' files and    *)
(* the acknowledgments to be sent are not part of the transaction.          *)
(*                                                                          *)
(* The history is reduced to what is unknown, missing or recorded (see Coop *)
(* for the rest).  Full sync scripts, packages and scripts that do not      *)
(* connect are left out.                                                    *)
(***************************************************************************)
EXTENDS Integers, Sequences, FiniteSets

CONSTANTS
    Script,      \* scripts of other members
    Member,      \* user ids of the other members
    Author,      \* Author[s]
    Has,         \* Has[s]: members who have s in their history
    Historic,    \* scripts from before this member joined
    Size,        \* chunk sizes in use
    Parts,       \* Parts[z]: number of chunks of size z of a script
    Joined,      \* members known at first
    Fault,       \* what may go wrong: files may be lost or damaged, or held by
                 \* some other program; the program may stop; members may leave
    MaxFaults    \* bound on how often

Nobody == 0      \* gidInvalid
Whole == 0       \* size and part of a script that is not in chunks

ASSUME SidetrackAssumption ==
    /\ Member \subseteq Nat \ {Nobody} /\ IsFiniteSet(Member) /\ Joined \subseteq Member
    /\ Author \in [Script -> Nat] /\ Has \in [Script -> SUBSET Member]
    /\ Historic \subseteq Script
    /\ Size \subseteq Nat \ {Whole} /\ Parts \in [Size -> Nat \ {0, 1}]
    /\ MaxFaults \in Nat
    /\ Fault \subseteq {"lost", "damaged", "damaged chunk", "shared", "stop", "leave"}

VARIABLES
    db,          \* history, missing (_missing) and chunks (_missingChunks)
    saved,       \* db as it was last committed
    disk,        \* chunks' files in the database folder
    inbox,       \* files in the inbox
    round,       \* one call of ProcessMail
    box,         \* AckBox: scripts to acknowledge
    acked,       \* scripts that were acknowledged
    requests,    \* requests on their way
    basket,      \* scriptBasket: requests that are still to be sent
    known,       \* project members, dead ones included
    dead,
    unsent,      \* scripts that their authors have not sent yet
    spoilt,      \* scripts of which a chunk was damaged on its way
    faults       \* how many more faults there may be

project == <<known, dead>>
world == <<unsent, requests, basket, spoilt, faults>>
vars == <<db, saved, disk, inbox, round, box, acked, project, world>>

Part(z) == 1 .. Parts[z]

File == [script : Script, size : {Whole} \cup Size, part : Nat, ok : BOOLEAN]

WholeFile(s) == [script |-> s, size |-> Whole, part |-> Whole, ok |-> TRUE]
Chunks(s, z, ps) == {[script |-> s, size |-> z, part |-> p, ok |-> TRUE] : p \in ps}

Added(f, x, e) == [y \in DOMAIN f \cup {x} |-> IF y = x THEN e ELSE f[y]]
Without(f, X) == [y \in DOMAIN f \ X |-> f[y]]

IsMissing(s) == db.history[s] = "missing"

WithLists(d, m, c) == [history |-> d.history, missing |-> m, chunks |-> c]

Idle == [pc |-> "idle", todo |-> {}, skip |-> {}, deleted |-> {}, pending |-> FALSE]

Init ==
    /\ db = [history |-> [s \in Script |-> "unknown"], missing |-> <<>>, chunks |-> <<>>]
    /\ saved = db
    /\ disk = {} /\ inbox = {} /\ round = Idle
    /\ box = {} /\ acked = {} /\ requests = {} /\ basket = {}
    /\ known = Joined /\ dead = {}
    /\ unsent = Script /\ spoilt = {}
    /\ faults = MaxFaults

Fails(kind) == kind \in Fault /\ faults > 0 /\ faults' = faults - 1

----------------------------------------------------------------------------
(* Whom to ask *)

RangeOf(q) == {q[i] : i \in DOMAIN q}
LastOf(q) == q[Len(q)]
LeastOf(S) == CHOOSE m \in S : \A n \in S : m <= n

Candidates == known \ dead

(* Variant: those who were asked may be asked again before all others. *)
SelectAnyRecipient(to) == Append(to, IF Candidates = {} THEN Nobody ELSE LeastOf(Candidates))

(* The next one is on top.  Nobody is next when everybody was asked; then    *)
(* the round starts again.                                                  *)
SelectRecipient(to) ==
    LET asked == IF to = <<>> \/ LastOf(to) = Nobody THEN <<>> ELSE to
        left == Candidates \ RangeOf(asked)
    IN  Append(asked, IF left = {} THEN Nobody ELSE LeastOf(left))

FirstRecipients(s) == IF Author[s] \in known THEN <<Author[s]>> ELSE SelectRecipient(<<>>)

IsExhausted(e) == LastOf(e.to) = Nobody

(* A request is sent to the next one, unless he is gone. *)
IsSendable(e) == ~IsExhausted(e) /\ LastOf(e.to) \in Candidates

Updated(e) == [e EXCEPT !.to = SelectRecipient(@), !.due = FALSE]

----------------------------------------------------------------------------
(* Unpacking mail *)

(* One attempt begins.  Without files there is none. *)
StartAttempt(skip) ==
    [Idle EXCEPT !.pc = "unpacking", !.todo = inbox' \ skip, !.skip = skip]

ProcessMail ==
    /\ round.pc = "idle"
    /\ inbox # {} \/ \E s \in Script : IsMissing(s)
    /\ UNCHANGED inbox
    /\ round' = IF inbox = {} THEN [Idle EXCEPT !.pc = "missing"] ELSE StartAttempt({})
    /\ UNCHANGED <<db, saved, disk, box, acked, project, world>>

(* Variant: the transaction is aborted, but not the deletion of files. *)
AbortDeleting(f) ==
    /\ db' = saved
    /\ inbox' = inbox \ round.deleted
    /\ round' = StartAttempt(round.skip \cup {f})

(* The attempt is aborted because of file f, and repeated without it. *)
Abort(f) ==
    /\ db' = saved
    /\ UNCHANGED inbox
    /\ round' = StartAttempt(round.skip \cup {f})

Unpacked(f, pending) ==
    round' = [round EXCEPT !.todo = @ \ {f}, !.deleted = @ \cup {f}, !.pending = @ \/ pending]

Unpacking(f) == round.pc = "unpacking" /\ f \in round.todo

(* A whole script goes into the history, and is acknowledged. *)
UnpackScript(f) ==
    /\ Unpacking(f) /\ f.size = Whole /\ f.ok
    /\ IF f.script \in Historic
       THEN UNCHANGED <<db, box>>
       ELSE /\ db' = [db EXCEPT !.history[f.script] = "recorded"]
            /\ box' = box \cup {f.script}
    /\ Unpacked(f, FALSE)
    /\ UNCHANGED <<saved, disk, inbox, acked, project, world>>

UnpackDamaged(f) ==
    /\ Unpacking(f) /\ f.size = Whole /\ ~f.ok
    /\ Abort(f)
    /\ UNCHANGED <<saved, disk, box, acked, project, world>>

(* A sharing violation: the file is left for later. *)
SkipShared(f) ==
    /\ Unpacking(f)
    /\ Fails("shared")
    /\ round' = [round EXCEPT !.todo = @ \ {f}]
    /\ UNCHANGED <<db, saved, disk, inbox, box, acked, project, unsent, requests, basket, spoilt>>

----------------------------------------------------------------------------
(* Chunks *)

SameChunk(f, g) == f.script = g.script /\ f.size = g.size /\ f.part = g.part

FilesOf(s) == {g \in disk : g.script = s}

(* Variant: the files of all chunks of a script have one name. *)
StoredOverOthers(f) == (disk \ FilesOf(f.script)) \cup {f}

StoredFiles(f) == {g \in disk : ~SameChunk(f, g)} \cup {f}

ChunkEntryOf(f) ==
    [to |-> FirstRecipients(f.script), due |-> FALSE, size |-> f.size, received |-> {f.part}]

(* Variant: a script that comes in chunks stays on the other list. *)
FirstChunkKeepsMissing(d, f) == WithLists(d, d.missing, Added(d.chunks, f.script, ChunkEntryOf(f)))

FirstChunk(d, f) ==
    WithLists(d, Without(d.missing, {f.script}), Added(d.chunks, f.script, ChunkEntryOf(f)))

(* What follows when count chunks are stored.  The header of the first one   *)
(* tells the history of the script, or that it is a historic one.           *)
AfterChunk(d, f, count) ==
    LET s == f.script
    IN  IF count # 1 THEN d
        ELSE IF s \notin Historic
             THEN [d EXCEPT !.history[s] = IF @ = "recorded" THEN @ ELSE "missing"]
        ELSE IF s \in DOMAIN d.missing THEN [d EXCEPT !.missing = Without(@, {s})]
        ELSE [d EXCEPT !.chunks = Without(@, {s})]

(* XAddChunk: all but the last chunk.  One of another size is not stored;    *)
(* what counts then is what was stored before.                              *)
UnpackChunk(f) ==
    LET s == f.script
        isNew == s \notin DOMAIN db.chunks
        ignored == ~isNew /\ db.chunks[s].size # f.size
        received == IF isNew THEN {f.part}
                    ELSE IF ignored THEN db.chunks[s].received
                    ELSE db.chunks[s].received \cup {f.part}
        count == Cardinality(received)
        stored == IF isNew THEN FirstChunk(db, f)
                  ELSE [db EXCEPT !.chunks[s].received = received]
        after == AfterChunk(stored, f, count)
    IN  /\ Unpacking(f) /\ f.size # Whole
        /\ ignored \/ received # Part(f.size)
        /\ db' = after
        /\ disk' = (IF ignored THEN disk ELSE StoredFiles(f))
                       \ (IF s \in DOMAIN after.chunks THEN {} ELSE FilesOf(s) \cup {f})
        /\ Unpacked(f, count = Parts[f.size])
        /\ UNCHANGED <<saved, inbox, box, acked, project, world>>

(* Variant: of whatever size. *)
IsLastOfAnySize(f) ==
    /\ f.script \in DOMAIN db.chunks
    /\ db.chunks[f.script].received \cup {f.part} = Part(f.size)

IsLastChunk(f) ==
    /\ f.script \in DOMAIN db.chunks
    /\ db.chunks[f.script].size = f.size
    /\ db.chunks[f.script].received \cup {f.part} = Part(f.size)

(* Variant: the chunks are still recorded as received. *)
KeepReceived(e) == [e EXCEPT !.to = SubSeq(@, 1, 1), !.received = Part(e.size)]

Restarted(e) == [e EXCEPT !.to = SubSeq(@, 1, 1), !.received = {}]

(* The last one: the whole script is put in the inbox, and the chunks' files *)
(* are deleted.                                                             *)
Reconstruct(f) ==
    LET s == f.script
        files == StoredFiles(f)
    IN  /\ Unpacking(f) /\ f.size # Whole /\ IsLastChunk(f)
        /\ disk' = disk \ FilesOf(s)
        /\ IF \A p \in Part(f.size) : [f EXCEPT !.part = p, !.ok = TRUE] \in files
           THEN /\ inbox' = inbox \cup {WholeFile(s)}
                /\ db' = [db EXCEPT !.chunks[s] = Restarted(@)]
                /\ Unpacked(f, TRUE)
           ELSE Abort(f)    \* cannot be read; deleted all the same
        /\ UNCHANGED <<saved, box, acked, project, world>>

----------------------------------------------------------------------------
(* After all files: the transaction is committed, and the files deleted *)

Commit ==
    /\ round.pc = "unpacking" /\ round.todo = {}
    /\ saved' = db
    /\ inbox' = inbox \ round.deleted
    /\ round' = IF round.pending THEN StartAttempt(round.skip) ELSE [Idle EXCEPT !.pc = "acks"]
    /\ UNCHANGED <<db, disk, box, acked, project, world>>

SendAcknowledgments ==
    /\ round.pc = "acks"
    /\ acked' = acked \cup box
    /\ box' = {}
    /\ round' = [Idle EXCEPT !.pc = "missing"]
    /\ UNCHANGED <<db, saved, disk, inbox, project, world>>

Request(s, z, ps, e) == {[to |-> LastOf(x.to), script |-> s, size |-> z, parts |-> ps] :
                            x \in {y \in {e} : y.due /\ IsSendable(y)}}

NewEntry(s) == [to |-> FirstRecipients(s), due |-> FALSE]

(* Entries that are due are asked for, and get a new recipient. *)
Asked(f) == [s \in DOMAIN f |-> IF f[s].due THEN Updated(f[s]) ELSE f[s]]

ProcessMissingScripts ==
    LET listed == {s \in Script : IsMissing(s)}
        gone == DOMAIN db.chunks \ listed
        chunks == Without(db.chunks, gone)
        missing == [s \in listed \ DOMAIN chunks |->
                       IF s \in DOMAIN db.missing THEN db.missing[s] ELSE NewEntry(s)]
    IN  /\ round.pc = "missing"
        /\ db' = WithLists(db, Asked(missing), Asked(chunks))
        /\ saved' = db'
        /\ basket' = (UNION {Request(s, Whole, {}, missing[s]) : s \in DOMAIN missing})
              \cup (UNION {Request(s, chunks[s].size, Part(chunks[s].size) \ chunks[s].received,
                                   chunks[s]) : s \in DOMAIN chunks})
        /\ disk' = disk \ UNION {FilesOf(s) : s \in gone}
        /\ round' = [Idle EXCEPT !.pc = IF basket' = {} THEN "idle" ELSE "sending"]
        /\ UNCHANGED <<inbox, box, acked, project, unsent, requests, spoilt, faults>>

(* Requests are sent once the lists say that they were.                     *)
SendRequests ==
    /\ round.pc = "sending"
    /\ requests' = requests \cup basket /\ basket' = {}
    /\ round' = Idle
    /\ UNCHANGED <<db, saved, disk, inbox, box, acked, project, unsent, spoilt, faults>>

----------------------------------------------------------------------------
(* Stops, time and the other members *)

(* A transaction not committed is as if it had not been.  Requests that were *)
(* not sent are not sent later.                                             *)
Stop ==
    /\ round.pc # "idle" /\ Fails("stop")
    /\ db' = saved
    /\ round' = Idle /\ box' = {} /\ basket' = {}
    /\ UNCHANGED <<saved, disk, inbox, acked, project, unsent, requests, spoilt>>

(* Or it is committed, but the files in the inbox were not deleted. *)
StopBeforeDelete ==
    /\ round.pc = "unpacking" /\ round.todo = {} /\ Fails("stop")
    /\ saved' = db
    /\ round' = Idle /\ box' = {}
    /\ UNCHANGED <<db, disk, inbox, acked, project, unsent, requests, basket, spoilt>>

(* The time for asking has come, for all entries. *)
MakeDue(f) == [s \in DOMAIN f |-> [f[s] EXCEPT !.due = TRUE]]
AllDue(d) == WithLists(d, MakeDue(d.missing), MakeDue(d.chunks))

TimePasses ==
    /\ db # AllDue(db) \/ saved # AllDue(saved)
    /\ db' = AllDue(db) /\ saved' = AllDue(saved)
    /\ UNCHANGED <<disk, inbox, round, box, acked, project, world>>

(* A script that is not yet known is named in the lineage of another one. *)
Learn(s) ==
    /\ round.pc = "idle"
    /\ db.history[s] = "unknown" /\ s \notin Historic
    /\ db' = [db EXCEPT !.history[s] = "missing"]
    /\ saved' = db'
    /\ UNCHANGED <<disk, inbox, round, box, acked, project, world>>

(* Of the files sent some arrive; one of them may be damaged. *)
Arrive(sent) ==
    \/ /\ inbox' = inbox \cup sent
       /\ UNCHANGED <<spoilt, faults>>
    \/ /\ Fails("lost")
       /\ \E got \in (SUBSET sent) \ {sent} : inbox' = inbox \cup got
       /\ UNCHANGED spoilt
    \/ \E f \in sent :
          /\ Fails(IF f.size = Whole THEN "damaged" ELSE "damaged chunk")
          /\ inbox' = inbox \cup (sent \ {f}) \cup {[f EXCEPT !.ok = FALSE]}
          /\ spoilt' = IF f.size = Whole THEN spoilt ELSE spoilt \cup {f.script}

Forms(s) == {{WholeFile(s)}} \cup {Chunks(s, z, Part(z)) : z \in Size}

Send(s) ==
    /\ s \in unsent
    /\ unsent' = unsent \ {s}
    /\ \E sent \in Forms(s) : Arrive(sent)
    /\ UNCHANGED <<db, saved, disk, round, box, acked, project, requests, basket>>

(* The one who was asked resends what he has. *)
Answer(r) ==
    /\ r \in requests
    /\ requests' = requests \ {r}
    /\ IF r.to \notin Has[r.script] THEN UNCHANGED <<inbox, spoilt, faults>>
       ELSE IF r.size = Whole THEN \E sent \in Forms(r.script) : Arrive(sent)
       ELSE Arrive(Chunks(r.script, r.size, r.parts))
    /\ UNCHANGED <<db, saved, disk, round, box, acked, project, unsent, basket>>

Join(m) ==
    /\ round.pc = "idle"
    /\ m \in Member \ known
    /\ known' = known \cup {m}
    /\ UNCHANGED <<db, saved, disk, inbox, round, box, acked, dead, world>>

Leave(m) ==
    /\ round.pc = "idle" /\ Fails("leave")
    /\ m \in Candidates
    /\ dead' = dead \cup {m}
    /\ UNCHANGED <<db, saved, disk, inbox, round, box, acked, known, unsent, requests, basket, spoilt>>

----------------------------------------------------------------------------
Work ==
    \/ ProcessMail
    \/ \E f \in round.todo : UnpackScript(f) \/ UnpackDamaged(f) \/ UnpackChunk(f) \/ Reconstruct(f)
    \/ Commit \/ SendAcknowledgments \/ ProcessMissingScripts \/ SendRequests

Next ==
    \/ Work
    \/ \E f \in round.todo : SkipShared(f)
    \/ Stop \/ StopBeforeDelete
    \/ TimePasses
    \/ \E s \in Script : Learn(s) \/ Send(s)
    \/ \E r \in requests : Answer(r)
    \/ \E m \in Member : Join(m) \/ Leave(m)

Spec == Init /\ [][Next]_vars

(* Mail is processed when there is some, and now and then when something is  *)
(* missing; who has the script answers some request for it.                 *)
Fairness ==
    /\ WF_vars(Work)
    /\ WF_vars(TimePasses)
    /\ \A s \in Script : WF_vars(\E r \in requests : r.script = s /\ r.to \in Has[s] /\ Answer(r))

FairSpec == Spec /\ Fairness
=============================================================================
